---- MODULE Spec2Model ----
(***************************************************************************)
(* Event normalisation and validation pipeline of snapback-dev/contracts:  *)
(* the canonical event schemas and their validator, the two legacy event   *)
(* mappers and the migration driver.                                       *)
(***************************************************************************)
EXTENDS Integers, Sequences, FiniteSets, TLC

VARIABLES
    clock,        \* the reading Date.now() gives
    vSchema,      \* validator: which schema module was asked ("v1" | "core")
    vKind,        \* validator: how the last candidate was built
    vExtra,       \* validator: how many unknown fields were added to it
    vOrigin,      \* validator: the candidate before extra fields were added
    vOriginOk,    \* validator: the verdict on vOrigin
    vCand,        \* validator: the last candidate
    vVerdict,     \* validator: validateCoreTelemetryEvent(vCand)
    vError,       \* validator: getCoreEventValidationError(vCand)
    vParsed,      \* validator: what CoreEventSchema.safeParse(vCand) returned
    vDone,        \* validator: vCand has been validated
    mEvent,       \* mappers: the legacy event handed to mapEvent
    sCalls,       \* mappers: the static mapEvent's calls so far, [at, res] each
    iCalls,       \* mappers: the instance mapEvent's calls so far, [at, res] each
    pc,           \* driver: where main() is
    legacyEvents, \* driver: what JSON.parse returned for the input file
    idx,          \* driver: how many elements the loop has taken
    coreEvents,   \* driver: the mapped bucket
    unmappedEvents, \* driver: the unmapped bucket
    coreFrom,     \* driver: the input index each mapped event came from
    unmappedFrom, \* driver: the input index each unmapped event came from
    mappedAt,     \* driver: the clock reading at each mapEvent call
    written,      \* driver: the files written so far, [file, content] each
    exitCode,     \* driver: the process exit code, -1 while running
    argc,         \* driver: how many command line arguments were given
    outputFile,   \* driver: args[1], a path as a sequence of tokens
    inputReadable, \* driver: whether readFileSync(inputFile) succeeds
    inputJson,    \* driver: the input file's content, [ok, val] as JSON.parse takes it
    nReads,       \* driver: how many times the input file has been read
    failure,      \* driver: why the run failed, "" while it has not
    entry,        \* driver: "main", "toFile" or "toArray": the entry point that runs
    apiResult,    \* driver: what migrateLegacyEventsToArray returned, [thrown, val]
    tPhase,       \* triggers: "seq" when tSeq is current, "mask" when tMask is
    tSeq,         \* triggers: the current sequence of triggers
    tMask,        \* triggers: the current bitmask
    tHist,        \* triggers: the encode and decode calls so far, [op, arg, res] each
    rScore,       \* risk: the score handed to the risk utilities
    rScale,       \* risk: the scale handed to normalizeRiskScore
    rDecimals,    \* risk: the decimals handed to roundRiskScore, Undefined when omitted
    rNormalized,  \* risk: normalizeRiskScore(rScore, rScale), Undefined before the call
    rSeverity,    \* risk: getSeverity(rScore), "" before the call
    rRounded,     \* risk: roundRiskScore(rScore, rDecimals), Undefined before the call
    bSets,        \* bus: the Map m, key |-> the key's Set in insertion order
    bSubs,        \* bus: the closures on returned, [k, h, calls, readded]
    bRegAt,       \* bus: <<key, handler>> |-> the number of the call of on that put
                  \*      the handler into the key's Set, 0 while it is not in it
    bLog,         \* bus: the emits, [k, p, atStart, regAt, invoked, state]
    bUnsubs       \* bus: the calls of closures, [sub, k, h, nth, readded, before, after]

vvars == <<vSchema, vKind, vExtra, vOrigin, vOriginOk, vCand, vVerdict, vError, vParsed,
          vDone>>
mvars == <<mEvent, sCalls, iCalls>>
denv == <<argc, outputFile, inputReadable, inputJson, entry, apiResult>>
dvars == <<pc, legacyEvents, idx, coreEvents, unmappedEvents, coreFrom, unmappedFrom,
           mappedAt, written, exitCode, denv, nReads, failure>>
tvars == <<tPhase, tSeq, tMask, tHist>>
rvars == <<rScore, rScale, rDecimals, rNormalized, rSeverity, rRounded>>
bvars == <<bSets, bSubs, bRegAt, bLog, bUnsubs>>
vars == <<clock, vvars, mvars, dvars, tvars, rvars, bvars>>

(***************************************************************************)
(* JavaScript values.  A number is n (h = FALSE) or n + 1/2 (h = TRUE).    *)
(* A field of an object that holds Undefined is an absent field.           *)
(***************************************************************************)
Undefined == [k |-> "undefined"]
Null == [k |-> "null"]
NaN == [k |-> "nan"]
Function == [k |-> "function"]
Str(s) == [k |-> "string", s |-> s]
Num(n) == [k |-> "number", n |-> n, h |-> FALSE]
Half(n) == [k |-> "number", n |-> n, h |-> TRUE]
Bool(b) == [k |-> "boolean", b |-> b]
Arr(a) == [k |-> "array", a |-> a]
Obj(o) == [k |-> "object", o |-> o]

\* v.f for a value v that is neither undefined nor null
Get(v, f) == IF v.k = "object" /\ f \in DOMAIN v.o THEN v.o[f] ELSE Undefined

\* v.f raises a TypeError
GetThrows(v) == v.k \in {"undefined", "null"}

\* JavaScript truthiness
Truthy(v) ==
    CASE v.k \in {"undefined", "null", "nan"} -> FALSE
      [] v.k = "boolean" -> v.b
      [] v.k = "number" -> ~(v.n = 0 /\ ~v.h)
      [] v.k = "string" -> v.s # ""
      [] OTHER -> TRUE

\* the object v with field f set to x
With(v, f, x) ==
    IF f \in DOMAIN v.o THEN Obj([v.o EXCEPT ![f] = x]) ELSE Obj((f :> x) @@ v.o)

\* the object v without field f
Without(v, f) == Obj([g \in DOMAIN v.o \ {f} |-> v.o[g]])

(***************************************************************************)
(* Bounds                                                                  *)
(***************************************************************************)
MaxClock == 2
MaxExtra == 2

Clocks == 1..MaxClock

(***************************************************************************)
(* The schema registry                                                     *)
(***************************************************************************)
EVENT_VERSION == "1.0.0"

CORE_TELEMETRY_EVENTS ==
    {"save_attempt", "snapshot_created", "session_finalized", "issue_created",
     "issue_resolved", "session_restored", "policy_changed"}

ProtectionEnum == {"watch", "warn", "block"}
SeverityEnum == {"low", "medium", "high", "critical"}
OutcomeEnum == {"saved", "canceled", "blocked"}
IssueTypeEnum == {"secret", "mock", "phantom"}
ResolutionEnum == {"fixed", "ignored", "allowlisted"}
PolicyLevelEnum == {"watch", "warn", "block", "unprotected"}
AiAssistEnum == {"none", "light", "medium", "heavy", "unknown"}
AiProviderEnum == {"cursor", "claude", "unknown", "none"}

\* zod types: ty, the enum's values, optional, integer only, lower and upper limit
ZType(ty, vals, opt, int, hasMin, hasMax) ==
    [ty |-> ty, vals |-> vals, opt |-> opt, int |-> int, hasMin |-> hasMin, hasMax |-> hasMax]
ZString == ZType("string", {}, FALSE, FALSE, FALSE, FALSE)
ZNumber == ZType("number", {}, FALSE, FALSE, FALSE, FALSE)
ZBoolean == ZType("boolean", {}, FALSE, FALSE, FALSE, FALSE)
ZStringArray == ZType("array", {}, FALSE, FALSE, FALSE, FALSE)
ZEnum(vals) == ZType("enum", vals, FALSE, FALSE, FALSE, FALSE)
ZOptEnum(vals) == ZType("enum", vals, TRUE, FALSE, FALSE, FALSE)
\* z.number().min(0).max(10).optional()
ZOptScore == ZType("number", {}, TRUE, FALSE, TRUE, TRUE)
\* z.number().int().min(0).optional()
ZOptCount == ZType("number", {}, TRUE, TRUE, TRUE, FALSE)
ScoreMin == 0
ScoreMax == 10

SaveAttemptProps ==
    [protection |-> ZEnum(ProtectionEnum), severity |-> ZEnum(SeverityEnum),
     file_kind |-> ZString, reason |-> ZString, ai_present |-> ZBoolean,
     ai_burst |-> ZBoolean, outcome |-> ZEnum(OutcomeEnum)]

SnapshotCreatedProps ==
    [session_id |-> ZString, snapshot_id |-> ZString, bytes_original |-> ZNumber,
     bytes_stored |-> ZNumber, dedup_hit |-> ZBoolean, latency_ms |-> ZNumber]

SessionFinalizedPropsV1 ==
    [session_id |-> ZString, files |-> ZStringArray, triggers |-> ZStringArray,
     duration_ms |-> ZNumber, ai_present |-> ZBoolean, ai_burst |-> ZBoolean,
     highest_severity |-> ZEnum(SeverityEnum)]

SessionFinalizedPropsCore ==
    [session_id |-> ZString, files |-> ZStringArray, triggers |-> ZStringArray,
     duration_ms |-> ZNumber, ai_present |-> ZBoolean, ai_burst |-> ZBoolean,
     highest_severity |-> ZEnum(SeverityEnum),
     ai_assist_level |-> ZOptEnum(AiAssistEnum), ai_confidence_score |-> ZOptScore,
     ai_provider |-> ZOptEnum(AiProviderEnum), ai_large_insert_count |-> ZOptCount,
     ai_total_chars |-> ZOptCount]

IssueCreatedProps ==
    [issue_id |-> ZString, session_id |-> ZString, file_kind |-> ZString,
     type |-> ZEnum(IssueTypeEnum), severity |-> ZEnum(SeverityEnum),
     recommendation |-> ZString]

IssueResolvedProps == [issue_id |-> ZString, resolution |-> ZEnum(ResolutionEnum)]

SessionRestoredProps ==
    [session_id |-> ZString, files_restored |-> ZStringArray,
     time_to_restore_ms |-> ZNumber, reason |-> ZString]

PolicyChangedProps ==
    [pattern |-> ZString, from |-> ZEnum(PolicyLevelEnum), to |-> ZEnum(PolicyLevelEnum),
     source |-> ZString]

\* one properties shape for every tag
PropsShapeUntagged(ver, tag) == IssueResolvedProps

\* the properties shape of a canonical tag in schema module ver
PropsShape(ver, tag) ==
    CASE tag = "save_attempt" -> SaveAttemptProps
      [] tag = "snapshot_created" -> SnapshotCreatedProps
      [] tag = "session_finalized" ->
            IF ver = "core" THEN SessionFinalizedPropsCore ELSE SessionFinalizedPropsV1
      [] tag = "issue_created" -> IssueCreatedProps
      [] tag = "issue_resolved" -> IssueResolvedProps
      [] tag = "session_restored" -> SessionRestoredProps
      [] tag = "policy_changed" -> PolicyChangedProps

RequiredFields(ver, tag) == {f \in DOMAIN PropsShape(ver, tag) : ~PropsShape(ver, tag)[f].opt}

(***************************************************************************)
(* The validator (zod)                                                     *)
(***************************************************************************)
\* a strict object: a key the shape does not name is an error
ZKeysOkStrict(keys, v) == DOMAIN v.o \subseteq keys

\* z.object's policy on keys the shape does not name: strip, never reject
ZKeysOk(keys, v) == TRUE

\* enum membership is not checked
ZCheckAnyString(t, v) ==
    IF v.k = "undefined" THEN t.opt
    ELSE CASE t.ty \in {"string", "enum"} -> v.k = "string"
           [] t.ty = "boolean" -> v.k = "boolean"
           [] t.ty = "array" -> v.k = "array" /\ \A i \in DOMAIN v.a : v.a[i].k = "string"
           [] t.ty = "number" -> v.k = "number"

\* every number has to be an integer
ZCheckIntOnly(t, v) ==
    IF v.k = "undefined" THEN t.opt
    ELSE CASE t.ty = "string" -> v.k = "string"
           [] t.ty = "boolean" -> v.k = "boolean"
           [] t.ty = "enum" -> v.k = "string" /\ v.s \in t.vals
           [] t.ty = "array" -> v.k = "array" /\ \A i \in DOMAIN v.a : v.a[i].k = "string"
           [] t.ty = "number" -> v.k = "number" /\ ~v.h

\* one value against one zod type
ZCheck(t, v) ==
    IF v.k = "undefined" THEN t.opt
    ELSE CASE t.ty = "string" -> v.k = "string"
           [] t.ty = "boolean" -> v.k = "boolean"
           [] t.ty = "enum" -> v.k = "string" /\ v.s \in t.vals
           [] t.ty = "array" -> v.k = "array" /\ \A i \in DOMAIN v.a : v.a[i].k = "string"
           [] t.ty = "number" ->
                 /\ v.k = "number"
                 /\ t.int => ~v.h
                 /\ t.hasMin => v.n >= ScoreMin
                 /\ t.hasMax => (v.n < ScoreMax \/ (v.n = ScoreMax /\ ~v.h))

\* z.object(shape) accepts v
ZObject(shape, v) ==
    /\ v.k = "object"
    /\ ZKeysOk(DOMAIN shape, v)
    /\ \A f \in DOMAIN shape : ZCheck(shape[f], Get(v, f))

\* what z.object(shape) returns for an accepted v: the known, present fields
ZStrip(shape, v) ==
    Obj([f \in {g \in DOMAIN shape \cap DOMAIN v.o : v.o[g].k # "undefined"} |-> v.o[f]])

\* BaseEventSchema.extend({event: z.literal(tag), properties: z.object(...)})
EnvelopeFields == {"event_version", "timestamp", "event", "properties"}

EventAccepts(ver, tag, v) ==
    /\ v.k = "object"
    /\ ZKeysOk(EnvelopeFields, v)
    /\ Get(v, "event") = Str(tag)
    /\ Get(v, "event_version").k \in {"undefined", "string"}
    /\ Get(v, "timestamp").k \in {"undefined", "number"}
    /\ ZObject(PropsShape(ver, tag), Get(v, "properties"))

\* no default is applied
EventVersionNoDefault(x) == x

\* the time of the call replaces the timestamp that was given
TimestampAlwaysNow(x, now) == Num(now)

\* .default(EVENT_VERSION) and .default(() => Date.now())
EventVersionOrDefault(x) == IF x.k = "undefined" THEN Str(EVENT_VERSION) ELSE x
TimestampOrDefault(x, now) == IF x.k = "undefined" THEN Num(now) ELSE x

EventOutput(ver, tag, v, now) ==
    Obj([event_version |-> EventVersionOrDefault(Get(v, "event_version")),
         timestamp |-> TimestampOrDefault(Get(v, "timestamp"), now),
         event |-> Str(tag),
         properties |-> ZStrip(PropsShape(ver, tag), Get(v, "properties"))])

\* <TagSchema>.safeParse(v): [ok, val, msg]
SchemaSafeParse(ver, tag, v, now) ==
    IF EventAccepts(ver, tag, v)
    THEN [ok |-> TRUE, val |-> EventOutput(ver, tag, v, now), msg |-> ""]
    ELSE [ok |-> FALSE, val |-> Null, msg |-> "invalid " \o tag]

\* CoreEventSchema.safeParse(v): the discriminated union over "event"
CoreEventSchemaSafeParse(ver, v, now) ==
    IF v.k # "object"
    THEN [ok |-> FALSE, val |-> Null, msg |-> "invalid_type"]
    ELSE IF ~(Get(v, "event").k = "string" /\ Get(v, "event").s \in CORE_TELEMETRY_EVENTS)
    THEN [ok |-> FALSE, val |-> Null, msg |-> "invalid_union_discriminator"]
    ELSE SchemaSafeParse(ver, Get(v, "event").s, v, now)

validateCoreTelemetryEvent(ver, v, now) == CoreEventSchemaSafeParse(ver, v, now).ok

getCoreEventValidationError(ver, v, now) ==
    IF CoreEventSchemaSafeParse(ver, v, now).ok
    THEN Null
    ELSE Str(CoreEventSchemaSafeParse(ver, v, now).msg)

(***************************************************************************)
(* Candidates handed to the validator                                      *)
(***************************************************************************)
SchemaModules == {"v1", "core"}

\* values a field of type t may hold (wide: every enum value, both booleans)
ValidValues(t) ==
    CASE t.ty = "string" -> {Str("x")}
      [] t.ty = "boolean" -> {Bool(TRUE), Bool(FALSE)}
      [] t.ty = "enum" -> {Str(s) : s \in t.vals}
      [] t.ty = "array" -> {Arr(<<>>), Arr(<<Str("x")>>)}
      [] t.ty = "number" ->
            IF t.hasMax THEN {Num(ScoreMin), Half(7), Num(ScoreMax)}
            ELSE IF t.int THEN {Num(0), Num(3)}
            ELSE {Num(0), Half(2)}

\* one value per type
SampleValue(t) ==
    CASE t.ty = "string" -> Str("x")
      [] t.ty = "boolean" -> Bool(FALSE)
      [] t.ty = "enum" -> Str(CHOOSE s \in t.vals : TRUE)
      [] t.ty = "array" -> Arr(<<Str("x")>>)
      [] t.ty = "number" -> Num(3)

\* values of another primitive type than t asks for
WrongTypeValues(t) ==
    {x \in {Str("x"), Num(1), Bool(TRUE), Null, NaN, Arr(<<Num(1)>>), Obj(<<>>)} :
        CASE t.ty \in {"string", "enum"} -> x.k # "string"
          [] t.ty = "boolean" -> x.k # "boolean"
          [] t.ty = "array" -> TRUE
          [] t.ty = "number" -> x.k # "number"}

RECURSIVE Records(_, _)
\* every record over the fields fs whose field f is drawn from vals[f]
Records(fs, vals) ==
    IF fs = {} THEN {<<>>}
    ELSE LET f == CHOOSE g \in fs : TRUE
         IN {(f :> x) @@ r : x \in vals[f], r \in Records(fs \ {f}, vals)}

\* the valid properties objects of a tag: every combination of the required
\* fields, and the sample record with one optional field set
ValidProps(ver, tag) ==
    LET shape == PropsShape(ver, tag)
        req == RequiredFields(ver, tag)
        sample == [f \in req |-> SampleValue(shape[f])]
    IN {Obj(r) : r \in Records(req, [f \in req |-> ValidValues(shape[f])])}
       \cup UNION {{Obj((f :> x) @@ sample) : x \in ValidValues(shape[f])} :
                      f \in (DOMAIN shape) \ req}

Envelope(tag, version, timestamp, props) ==
    Obj([event |-> tag, event_version |-> version, timestamp |-> timestamp,
         properties |-> props])

\* one valid event per tag, every field present
SampleEvent(ver, tag) ==
    Envelope(Str(tag), Str(EVENT_VERSION), Num(7),
             Obj([f \in RequiredFields(ver, tag) |-> SampleValue(PropsShape(ver, tag)[f])]))

EnumFields(ver, tag) == {f \in RequiredFields(ver, tag) : PropsShape(ver, tag)[f].ty = "enum"}

ExtraName(i) == "extra" \o ToString(i)

(***************************************************************************)
(* Candidates, by the way they are built                                   *)
(***************************************************************************)
Cand(kind, c) == [kind |-> kind, cand |-> c]

\* a structurally valid event, with or without event_version and timestamp
ValidCandidates(ver) ==
    UNION {{Cand("valid", Envelope(Str(tag), version, timestamp, props)) :
                props \in ValidProps(ver, tag),
                version \in {Undefined, Str("2.0.0")},
                timestamp \in {Undefined, Num(7)}} : tag \in CORE_TELEMETRY_EVENTS}

\* a required property, or the properties object, is missing
MissingCandidates(ver) ==
    UNION {{Cand("missing", With(SampleEvent(ver, tag), "properties",
                                 Without(Get(SampleEvent(ver, tag), "properties"), f))) :
                f \in RequiredFields(ver, tag)}
           \cup {Cand("missing", Without(SampleEvent(ver, tag), "properties"))} :
           tag \in CORE_TELEMETRY_EVENTS}

\* a required property holds a value of the wrong primitive type
WrongTypeCandidates(ver) ==
    UNION {UNION {{Cand("wrongtype", With(SampleEvent(ver, tag), "properties",
                       With(Get(SampleEvent(ver, tag), "properties"), f, x))) :
                       x \in WrongTypeValues(PropsShape(ver, tag)[f])} :
                  f \in RequiredFields(ver, tag)} : tag \in CORE_TELEMETRY_EVENTS}

\* an enum property holds a string outside its enumeration
BadEnumCandidates(ver) ==
    UNION {UNION {{Cand("badenum", With(SampleEvent(ver, tag), "properties",
                       With(Get(SampleEvent(ver, tag), "properties"), f, Str(s)))) :
                       s \in {"bogus", "", "unprotected"} \ PropsShape(ver, tag)[f].vals} :
                  f \in EnumFields(ver, tag)} : tag \in CORE_TELEMETRY_EVENTS}

\* the event tag is not one of the seven canonical tags
WrongTagCandidates(ver) ==
    {Cand("wrongtag", With(SampleEvent(ver, tag), "event", t)) :
        tag \in CORE_TELEMETRY_EVENTS,
        t \in {Str("snapshot.created"), Str("bogus"), Str(""), Num(1), Null, Undefined}}

\* a valid event of one canonical tag, relabelled with another canonical tag
SwappedTagCandidates(ver) ==
    UNION {{Cand("swappedtag", With(SampleEvent(ver, tag), "event", Str(t))) :
                t \in CORE_TELEMETRY_EVENTS \ {tag}} : tag \in CORE_TELEMETRY_EVENTS}

\* the candidate is no object at all
NonObjectCandidates ==
    {Cand("nonobject", c) : c \in {Undefined, Null, Str("save_attempt"), Num(1), Arr(<<>>)}}

\* event_version or timestamp holds a value of the wrong type
BadEnvelopeCandidates(ver) ==
    {Cand("badenvelope", With(SampleEvent(ver, tag), "event_version", x)) :
        tag \in CORE_TELEMETRY_EVENTS, x \in {Num(1), Null, Bool(TRUE)}}
    \cup {Cand("badenvelope", With(SampleEvent(ver, tag), "timestamp", x)) :
        tag \in CORE_TELEMETRY_EVENTS, x \in {Str("7"), Null, NaN}}

Candidates(ver) ==
    ValidCandidates(ver) \cup MissingCandidates(ver) \cup WrongTypeCandidates(ver)
    \cup BadEnumCandidates(ver) \cup WrongTagCandidates(ver)
    \cup SwappedTagCandidates(ver) \cup NonObjectCandidates
    \cup BadEnvelopeCandidates(ver)

(***************************************************************************)
(* Validator calls                                                         *)
(***************************************************************************)
\* the validator is asked about cand
Submit(cand) ==
    /\ vCand' = cand
    /\ vVerdict' = validateCoreTelemetryEvent(vSchema, cand, clock)
    /\ vError' = getCoreEventValidationError(vSchema, cand, clock)
    /\ vParsed' = CoreEventSchemaSafeParse(vSchema, cand, clock).val
    /\ vDone' = TRUE

\* validateCoreTelemetryEvent, getCoreEventValidationError and safeParse on the
\* candidate
Validate ==
    /\ ~vDone
    /\ Submit(vCand)
    /\ vOriginOk' = validateCoreTelemetryEvent(vSchema, vCand, clock)
    /\ UNCHANGED <<clock, vSchema, vKind, vExtra, vOrigin, mvars, dvars, tvars, rvars, bvars>>

\* the same calls on the candidate with one more unknown field, on the envelope
\* or inside its properties object
ValidateWithExtraField ==
    /\ vDone
    /\ vExtra < MaxExtra
    /\ vCand.k = "object"
    /\ \E inProps \in BOOLEAN :
         /\ inProps => Get(vCand, "properties").k = "object"
         /\ Submit(IF inProps
                   THEN With(vCand, "properties",
                             With(Get(vCand, "properties"), ExtraName(vExtra + 1), Num(1)))
                   ELSE With(vCand, ExtraName(vExtra + 1), Num(1)))
    /\ vExtra' = vExtra + 1
    /\ UNCHANGED <<clock, vSchema, vKind, vOrigin, vOriginOk, mvars, dvars, tvars, rvars, bvars>>

\* no validator call, no mapper call, no migration run
ValidatorIdle ==
    /\ vSchema = "v1"
    /\ vKind = "none"
    /\ vOrigin = Undefined
    /\ vCand = Undefined
    /\ vExtra = 0
    /\ vDone = FALSE
    /\ vOriginOk = FALSE
    /\ vVerdict = FALSE
    /\ vError = Null
    /\ vParsed = Null

MapperIdle ==
    /\ mEvent = Undefined
    /\ sCalls = <<>>
    /\ iCalls = <<>>

DriverIdle ==
    /\ pc = "idle"
    /\ legacyEvents = Undefined
    /\ idx = 0
    /\ coreEvents = <<>>
    /\ unmappedEvents = <<>>
    /\ coreFrom = <<>>
    /\ unmappedFrom = <<>>
    /\ mappedAt = <<>>
    /\ written = <<>>
    /\ exitCode = -1
    /\ argc = 0
    /\ outputFile = <<>>
    /\ inputReadable = FALSE
    /\ inputJson = [ok |-> FALSE]
    /\ nReads = 0
    /\ failure = ""
    /\ entry = "none"
    /\ apiResult = Undefined

TriggersIdle ==
    /\ tPhase = "idle"
    /\ tSeq = <<>>
    /\ tMask = 0
    /\ tHist = <<>>

RiskIdle ==
    /\ rScore = Undefined
    /\ rScale = ""
    /\ rDecimals = Undefined
    /\ rNormalized = Undefined
    /\ rSeverity = ""
    /\ rRounded = Undefined

Keys == {"a", "b"}
Handlers == {"h1", "h2"}

BusIdle ==
    /\ bSets = <<>>
    /\ bSubs = <<>>
    /\ bRegAt = [kh \in Keys \X Handlers |-> 0]
    /\ bLog = <<>>
    /\ bUnsubs = <<>>

InitValidator ==
    /\ clock \in Clocks
    /\ vSchema \in SchemaModules
    /\ \E c \in Candidates(vSchema) :
         /\ vKind = c.kind
         /\ vOrigin = c.cand
         /\ vCand = c.cand
    /\ vExtra = 0
    /\ vDone = FALSE
    /\ vOriginOk = FALSE
    /\ vVerdict = FALSE
    /\ vError = Null
    /\ vParsed = Null
    /\ MapperIdle
    /\ DriverIdle
    /\ TriggersIdle
    /\ RiskIdle
    /\ BusIdle

NextValidator ==
    \/ Validate
    \/ ValidateWithExtraField

SpecValidator == InitValidator /\ [][NextValidator]_vars

(***************************************************************************)
(* JavaScript conversions the mappers rely on                              *)
(***************************************************************************)
RECURSIVE ToStr(_)
RECURSIVE Join(_, _)
\* String(v), as a template literal and a property key apply it
ToStr(v) ==
    CASE v.k = "string" -> v.s
      [] v.k = "undefined" -> "undefined"
      [] v.k = "null" -> "null"
      [] v.k = "nan" -> "NaN"
      [] v.k = "boolean" -> IF v.b THEN "true" ELSE "false"
      [] v.k = "number" ->
            IF ~v.h THEN ToString(v.n)
            ELSE IF v.n >= 0 THEN ToString(v.n) \o ".5"
            ELSE IF v.n = -1 THEN "-0.5"
            ELSE "-" \o ToString(-v.n - 1) \o ".5"
      [] v.k = "array" -> Join(v.a, 1)
      [] v.k = "object" -> "[object Object]"

\* a.join(","), from index i on
Join(a, i) ==
    IF i > Len(a) THEN ""
    ELSE (IF a[i].k \in {"undefined", "null"} THEN "" ELSE ToStr(a[i]))
         \o (IF i < Len(a) THEN "," ELSE "") \o Join(a, i + 1)

\* the numbers whose decimal form occurs as a string in the model
NumericLiterals == {Num(n) : n \in -1..9} \cup {Half(n) : n \in -1..9}

\* Number(v), as the operator * applies it
ToNumber(v) ==
    CASE v.k \in {"number", "nan"} -> v
      [] v.k = "undefined" -> NaN
      [] v.k = "null" -> Num(0)
      [] v.k = "boolean" -> IF v.b THEN Num(1) ELSE Num(0)
      [] v.k \in {"string", "array", "object"} ->
            IF ToStr(v) = "" THEN Num(0)
            ELSE IF \E x \in NumericLiterals : ToStr(x) = ToStr(v)
            THEN CHOOSE x \in NumericLiterals : ToStr(x) = ToStr(v)
            ELSE NaN

\* x * c for an even integer c
Times(x, c) == IF x.k = "nan" THEN NaN ELSE Num(x.n * c + (IF x.h THEN c \div 2 ELSE 0))

\* names every object literal inherits from Object.prototype
ObjectPrototypeKeys == {"constructor", "toString", "valueOf", "hasOwnProperty"}

\* map[key] on an object literal map with string values
Lookup(map, key) ==
    IF ToStr(key) \in DOMAIN map THEN Str(map[ToStr(key)])
    ELSE IF ToStr(key) \in ObjectPrototypeKeys THEN Function
    ELSE Undefined

\* a || b
OrElse(a, b) == IF Truthy(a) THEN a ELSE b

\* the characters of the strings that occur as patterns or as needles
Chars(s) ==
    CASE s = "" -> <<>>
      [] s = "mock" -> <<"m", "o", "c", "k">>
      [] s = "test" -> <<"t", "e", "s", "t">>
      [] s = "phantom" -> <<"p", "h", "a", "n", "t", "o", "m">>
      [] s = "unused" -> <<"u", "n", "u", "s", "e", "d">>
      [] s = "latest" -> <<"l", "a", "t", "e", "s", "t">>
      [] s = "api_key" -> <<"a", "p", "i", "_", "k", "e", "y">>
      [] s = "mock_test_helper" ->
            <<"m", "o", "c", "k", "_", "t", "e", "s", "t", "_", "h", "e", "l", "p", "e", "r">>

\* s.includes(sub)
Includes(s, sub) ==
    \E i \in 0..(Len(Chars(s)) - Len(Chars(sub))) :
        SubSeq(Chars(s), i + 1, i + Len(Chars(sub))) = Chars(sub)

RECURSIVE SomeIncludes(_, _, _)
\* a.some(p => p.includes(n1) || p.includes(n2)) from index i on, for an array
\* a: "true", "false", or "throw" when an element before the first hit has no
\* includes method
SomeIncludes(a, i, needles) ==
    IF i > Len(a) THEN "false"
    ELSE IF a[i].k = "string"
    THEN IF \E n \in needles : Includes(a[i].s, n) THEN "true"
         ELSE SomeIncludes(a, i + 1, needles)
    ELSE IF a[i].k = "array"
    THEN IF \E n \in needles : \E j \in DOMAIN a[i].a : a[i].a[j] = Str(n) THEN "true"
         ELSE SomeIncludes(a, i + 1, needles)
    ELSE "throw"

\* Array(x).fill(y): [ok, val]; not ok is a RangeError
ArrayFill(x, y) ==
    IF x.k = "nan" \/ (x.k = "number" /\ (x.h \/ x.n < 0))
    THEN [ok |-> FALSE, val |-> Null]
    ELSE IF x.k = "number"
    THEN [ok |-> TRUE, val |-> Arr([i \in 1..x.n |-> y])]
    ELSE [ok |-> TRUE, val |-> Arr(<<y>>)]

(***************************************************************************)
(* The legacy taxonomy                                                     *)
(***************************************************************************)
TELEMETRY_EVENTS ==
    {"extension.activated", "extension.deactivated", "command.execution",
     "snapshot.created", "snapback.used", "risk.detected", "view.activated",
     "notification.shown", "feature.used", "error", "walkthrough.step.completed",
     "onboarding.protection.assigned", "onboarding.phase.progressed",
     "onboarding.contextual.prompt.shown", "signature.verification.success",
     "signature.verification.failed", "rules.cached.fallback"}

\* the property types of each legacy event
LegacyShape(tag) ==
    CASE tag = "extension.activated" -> [version |-> "string", vscodeVersion |-> "string"]
      [] tag = "command.execution" ->
            [command |-> "string", duration |-> "number", success |-> "boolean"]
      [] tag = "snapshot.created" -> [method |-> "string", filesCount |-> "number"]
      [] tag = "snapback.used" ->
            [filesRestored |-> "number", duration |-> "number", success |-> "boolean"]
      [] tag = "risk.detected" ->
            [riskLevel |-> "string", patterns |-> "array", confidence |-> "number"]
      [] tag = "view.activated" -> [viewId |-> "string"]
      [] tag = "notification.shown" ->
            [notificationType |-> "string", actionTaken |-> "nullable"]
      [] tag = "feature.used" -> [feature |-> "string"]
      [] tag = "error" -> [errorType |-> "string", errorMessage |-> "string"]
      [] tag = "walkthrough.step.completed" -> [stepId |-> "string", stepTitle |-> "string"]
      [] tag = "onboarding.protection.assigned" ->
            [level |-> "string", trigger |-> "string", fileType |-> "string",
             isFirstProtection |-> "boolean"]
      [] tag = "onboarding.phase.progressed" ->
            [phase |-> "number", trigger |-> "string", unlockedFeatures |-> "array"]
      [] tag = "onboarding.contextual.prompt.shown" ->
            [promptType |-> "string", actionTaken |-> "nullable"]
      [] tag \in {"extension.deactivated", "signature.verification.success",
                  "signature.verification.failed", "rules.cached.fallback"} -> <<>>

\* the typeof / Array.isArray test validateTelemetryEvent applies to a property
LegacyTypeOk(ty, v) ==
    CASE ty = "string" -> v.k = "string"
      [] ty = "number" -> v.k \in {"number", "nan"}
      [] ty = "boolean" -> v.k = "boolean"
      [] ty = "array" -> v.k = "array"
      [] ty = "nullable" -> v.k \in {"null", "string"}

\* validateTelemetryEvent(e), for an event whose properties are an object
validateTelemetryEvent(e) ==
    /\ Get(e, "event").k = "string"
    /\ Get(e, "event").s \in TELEMETRY_EVENTS
    /\ LET shape == LegacyShape(Get(e, "event").s)
           props == Get(e, "properties")
       IN IF DOMAIN shape = {}
          THEN {f \in DOMAIN props.o : props.o[f].k # "undefined"} = {}
          ELSE \A f \in DOMAIN shape : LegacyTypeOk(shape[f], Get(props, f))

(***************************************************************************)
(* The static mapper (telemetry module)                                    *)
(***************************************************************************)
\* what a call gives: a returned value, or an exception
Ret(v) == [thrown |-> FALSE, val |-> v]
Throw == [thrown |-> TRUE, val |-> Undefined]

\* try { return Schema.parse(v) } catch { return null }
ParseOrNull(ver, tag, v, now) ==
    IF SchemaSafeParse(ver, tag, v, now).ok THEN SchemaSafeParse(ver, tag, v, now).val
    ELSE Null

protectionMap == [low |-> "watch", medium |-> "warn", high |-> "block", critical |-> "block"]
\* every level is given the severity "medium"
severityMapAllMedium ==
    [low |-> "medium", medium |-> "medium", high |-> "medium", critical |-> "medium"]

severityMap == [low |-> "low", medium |-> "medium", high |-> "high", critical |-> "critical"]

StaticMapOnboardingProtectionAssigned(event, now) ==
    LET props == Get(event, "properties")
    IN IF GetThrows(props) THEN Null
       ELSE ParseOrNull("v1", "save_attempt",
                Obj([event |-> Str("save_attempt"),
                     properties |->
                        Obj([protection |-> OrElse(Lookup(protectionMap, Get(props, "level")),
                                                   Str("watch")),
                             severity |-> OrElse(Lookup(severityMap, Get(props, "level")),
                                                 Str("low")),
                             file_kind |-> Get(props, "fileType"),
                             reason |-> Str("onboarding_" \o ToStr(Get(props, "trigger"))),
                             ai_present |-> Bool(FALSE),
                             ai_burst |-> Bool(FALSE),
                             outcome |-> Str("saved")]),
                     timestamp |-> Get(event, "timestamp")]), now)

BytesPerFileOriginal == 1024
BytesPerFileStored == 512

StaticMapSnapshotCreated(event, now) ==
    LET props == Get(event, "properties")
    IN IF GetThrows(props) THEN Null
       ELSE ParseOrNull("v1", "snapshot_created",
                Obj([event |-> Str("snapshot_created"),
                     properties |->
                        Obj([session_id |-> Str("legacy_session"),
                             snapshot_id |-> Str("snap_" \o ToString(now)),
                             bytes_original |->
                                Times(ToNumber(Get(props, "filesCount")), BytesPerFileOriginal),
                             bytes_stored |->
                                Times(ToNumber(Get(props, "filesCount")), BytesPerFileStored),
                             dedup_hit |-> Bool(FALSE),
                             latency_ms |-> Num(0)]),
                     timestamp |-> Get(event, "timestamp")]), now)

StaticMapSnapBackUsed(event, now) ==
    LET props == Get(event, "properties")
    IN IF GetThrows(props) THEN Null
       ELSE IF ~ArrayFill(Get(props, "filesRestored"), Str("legacy_file")).ok THEN Null
       ELSE ParseOrNull("v1", "session_restored",
                Obj([event |-> Str("session_restored"),
                     properties |->
                        Obj([session_id |-> Str("legacy_session"),
                             files_restored |->
                                ArrayFill(Get(props, "filesRestored"), Str("legacy_file")).val,
                             time_to_restore_ms |-> Get(props, "duration"),
                             reason |-> IF Truthy(Get(props, "success"))
                                        THEN Str("user_initiated") ELSE Str("failed")]),
                     timestamp |-> Get(event, "timestamp")]), now)

\* the phantom rule is tried before the mock rule
IssueTypePhantomFirst(patterns) ==
    IF patterns.k # "array" THEN "throw"
    ELSE IF SomeIncludes(patterns.a, 1, {"phantom", "unused"}) = "throw" THEN "throw"
    ELSE IF SomeIncludes(patterns.a, 1, {"phantom", "unused"}) = "true" THEN "phantom"
    ELSE IF SomeIncludes(patterns.a, 1, {"mock", "test"}) = "throw" THEN "throw"
    ELSE IF SomeIncludes(patterns.a, 1, {"mock", "test"}) = "true" THEN "mock"
    ELSE "secret"

\* the issue type read off the patterns: "mock", "phantom", "secret", or
\* "throw" when patterns has no some method or an element no includes method
IssueTypeOf(patterns) ==
    IF patterns.k # "array" THEN "throw"
    ELSE IF SomeIncludes(patterns.a, 1, {"mock", "test"}) = "throw" THEN "throw"
    ELSE IF SomeIncludes(patterns.a, 1, {"mock", "test"}) = "true" THEN "mock"
    ELSE IF SomeIncludes(patterns.a, 1, {"phantom", "unused"}) = "throw" THEN "throw"
    ELSE IF SomeIncludes(patterns.a, 1, {"phantom", "unused"}) = "true" THEN "phantom"
    ELSE "secret"

StaticMapRiskDetected(event, now) ==
    LET props == Get(event, "properties")
    IN IF GetThrows(props) THEN Null
       ELSE IF IssueTypeOf(Get(props, "patterns")) = "throw" THEN Null
       ELSE ParseOrNull("v1", "issue_created",
                Obj([event |-> Str("issue_created"),
                     properties |->
                        Obj([issue_id |-> Str("issue_" \o ToString(now)),
                             session_id |-> Str("legacy_session"),
                             file_kind |-> Str("unknown"),
                             type |-> Str(IssueTypeOf(Get(props, "patterns"))),
                             severity |-> OrElse(Lookup(severityMap, Get(props, "riskLevel")),
                                                 Str("medium")),
                             recommendation |-> Str("Review detected risk pattern")]),
                     timestamp |-> Get(event, "timestamp")]), now)

\* TelemetryEventMapper.mapEvent (static)
StaticMapEvent(event, now) ==
    IF GetThrows(event) THEN Throw
    ELSE CASE Get(event, "event") = Str("onboarding.protection.assigned") ->
                Ret(StaticMapOnboardingProtectionAssigned(event, now))
           [] Get(event, "event") = Str("snapshot.created") ->
                Ret(StaticMapSnapshotCreated(event, now))
           [] Get(event, "event") = Str("snapback.used") ->
                Ret(StaticMapSnapBackUsed(event, now))
           [] Get(event, "event") = Str("risk.detected") ->
                Ret(StaticMapRiskDetected(event, now))
           [] OTHER -> Ret(Null)

(***************************************************************************)
(* The instance mapper (events/migrate.ts)                                 *)
(***************************************************************************)
LEGACY_TELEMETRY_EVENTS == TELEMETRY_EVENTS

\* the constructed event is returned without validation
ValidateThenParseUnchecked(tag, e, now) == Ret(e)

\* if (validateCoreTelemetryEvent(e)) return Schema.parse(e); return null
ValidateThenParse(tag, e, now) ==
    IF validateCoreTelemetryEvent("core", e, now)
    THEN Ret(SchemaSafeParse("core", tag, e, now).val)
    ELSE Ret(Null)

getDurationFromEvent(event) ==
    LET props == Get(event, "properties")
    IN IF /\ props.k = "object"
          /\ Get(event, "event") \in {Str("command.execution"), Str("snapback.used")}
          /\ "duration" \in DOMAIN props.o
       THEN IF Get(props, "duration").k \in {"number", "nan"}
            THEN Get(props, "duration") ELSE Num(0)
       ELSE Num(0)

\* the outcome is taken from isFirstProtection instead of being "saved"
InstanceMapOnboardingOutcomeFromEvent(event, now) ==
    LET props == Get(event, "properties")
    IN IF GetThrows(props) THEN Throw
       ELSE Ret(Obj([event |-> Str("save_attempt"),
                     event_version |-> Str(EVENT_VERSION),
                     properties |->
                        Obj([protection |-> Str("watch"),
                             severity |-> Str("medium"),
                             file_kind |-> Str("unknown"),
                             reason |-> Str("unknown"),
                             ai_present |-> Bool(FALSE),
                             ai_burst |-> Bool(FALSE),
                             outcome |-> IF Truthy(Get(props, "isFirstProtection"))
                                         THEN Str("saved") ELSE Str("blocked")]),
                     timestamp |-> Num(now)]))

InstanceMapOnboardingProtectionAssigned(event, now) ==
    LET props == Get(event, "properties")
    IN IF GetThrows(props) THEN Throw
       ELSE ValidateThenParse("save_attempt",
                Obj([event |-> Str("save_attempt"),
                     properties |->
                        Obj([protection |-> Get(props, "level"),
                             severity |-> Str("medium"),
                             file_kind |-> Get(props, "fileType"),
                             reason |-> Get(props, "trigger"),
                             ai_present |-> Bool(FALSE),
                             ai_burst |-> Bool(FALSE),
                             outcome |-> Str("saved")]),
                     timestamp |-> Get(event, "timestamp")]), now)

InstanceMapCommandExecution(event, now) ==
    LET props == Get(event, "properties")
    IN IF GetThrows(props) THEN Throw
       ELSE ValidateThenParse("save_attempt",
                Obj([event |-> Str("save_attempt"),
                     properties |->
                        Obj([protection |-> Str("watch"),
                             severity |-> Str("low"),
                             file_kind |-> Str("unknown"),
                             reason |-> Get(props, "command"),
                             ai_present |-> Bool(FALSE),
                             ai_burst |-> Bool(FALSE),
                             outcome |-> IF Truthy(Get(props, "success"))
                                         THEN Str("saved") ELSE Str("canceled")]),
                     timestamp |-> Get(event, "timestamp")]), now)

InstanceMapSnapshotCreated(event, now) ==
    ValidateThenParse("snapshot_created",
        Obj([event |-> Str("snapshot_created"),
             properties |->
                Obj([session_id |-> Str("unknown"),
                     snapshot_id |-> Str("unknown"),
                     bytes_original |-> Num(0),
                     bytes_stored |-> Num(0),
                     dedup_hit |-> Bool(FALSE),
                     latency_ms |-> getDurationFromEvent(event)]),
             timestamp |-> Get(event, "timestamp")]), now)

InstanceMapExtensionDeactivated(event, now) ==
    ValidateThenParse("session_finalized",
        Obj([event |-> Str("session_finalized"),
             properties |->
                Obj([session_id |-> Str("unknown"),
                     files |-> Arr(<<>>),
                     triggers |-> Arr(<<>>),
                     duration_ms |-> getDurationFromEvent(event),
                     ai_present |-> Bool(FALSE),
                     ai_burst |-> Bool(FALSE),
                     highest_severity |-> Str("low")]),
             timestamp |-> Get(event, "timestamp")]), now)

InstanceMapRiskDetected(event, now) ==
    LET props == Get(event, "properties")
    IN IF GetThrows(props) THEN Throw
       ELSE ValidateThenParse("issue_created",
                Obj([event |-> Str("issue_created"),
                     properties |->
                        Obj([issue_id |-> Str("unknown"),
                             session_id |-> Str("unknown"),
                             file_kind |-> Str("unknown"),
                             type |-> Str("phantom"),
                             severity |-> Get(props, "riskLevel"),
                             recommendation |-> Str("Review detected risk")]),
                     timestamp |-> Get(event, "timestamp")]), now)

InstanceMapWalkthroughStepCompleted(event, now) ==
    LET props == Get(event, "properties")
    IN IF GetThrows(props) THEN Throw
       ELSE ValidateThenParse("issue_resolved",
                Obj([event |-> Str("issue_resolved"),
                     properties |->
                        Obj([issue_id |-> Str("onboarding-" \o ToStr(Get(props, "stepId"))),
                             resolution |-> Str("fixed")]),
                     timestamp |-> Get(event, "timestamp")]), now)

InstanceMapSnapBackUsed(event, now) ==
    ValidateThenParse("session_restored",
        Obj([event |-> Str("session_restored"),
             properties |->
                Obj([session_id |-> Str("unknown"),
                     files_restored |-> Arr(<<>>),
                     time_to_restore_ms |-> getDurationFromEvent(event),
                     reason |-> Str("user_request")]),
             timestamp |-> Get(event, "timestamp")]), now)

\* TelemetryEventMapper.mapEvent (instance)
InstanceMapEvent(event, now) ==
    IF GetThrows(event) THEN Throw
    ELSE CASE Get(event, "event") = Str("onboarding.protection.assigned") ->
                InstanceMapOnboardingProtectionAssigned(event, now)
           [] Get(event, "event") = Str("command.execution") ->
                InstanceMapCommandExecution(event, now)
           [] Get(event, "event") = Str("snapshot.created") ->
                InstanceMapSnapshotCreated(event, now)
           [] Get(event, "event") = Str("extension.deactivated") ->
                InstanceMapExtensionDeactivated(event, now)
           [] Get(event, "event") = Str("risk.detected") ->
                InstanceMapRiskDetected(event, now)
           [] Get(event, "event") = Str("walkthrough.step.completed") ->
                InstanceMapWalkthroughStepCompleted(event, now)
           [] Get(event, "event") = Str("snapback.used") ->
                InstanceMapSnapBackUsed(event, now)
           [] OTHER -> Ret(Null)

(***************************************************************************)
(* Legacy events handed to the mappers                                     *)
(***************************************************************************)
MaxPatterns == 2
MaxCalls == 2

PatternStrings == {"mock", "latest", "unused", "phantom", "api_key"}

\* the arrays of at most MaxPatterns pattern strings
PatternArrays ==
    UNION {{Arr(a) : a \in [1..n -> {Str(p) : p \in PatternStrings}]} : n \in 0..MaxPatterns}

LegacyEvent(tag, props, timestamp) ==
    Obj([event |-> tag, properties |-> props, timestamp |-> timestamp])

SampleLegacyValue(ty) ==
    CASE ty = "string" -> Str("x")
      [] ty = "number" -> Num(3)
      [] ty = "boolean" -> Bool(TRUE)
      [] ty = "array" -> Arr(<<Str("mock_test_helper")>>)
      [] ty = "nullable" -> Null

\* one well-typed event per legacy tag
SampleLegacy(tag) ==
    LegacyEvent(Str(tag),
                Obj([f \in DOMAIN LegacyShape(tag) |-> SampleLegacyValue(LegacyShape(tag)[f])]),
                Num(7))

LegacyNumbers == {Num(0), Num(3), Num(-1), Half(1), NaN}

\* events whose properties have the declared types
TypedLegacyEvents ==
    {SampleLegacy(tag) : tag \in TELEMETRY_EVENTS}
    \cup {LegacyEvent(Str("onboarding.protection.assigned"),
                      Obj([level |-> Str(l), trigger |-> Str("auto"), fileType |-> Str("ts"),
                           isFirstProtection |-> Bool(b)]), Num(7)) :
            l \in {"low", "medium", "high", "critical", "watch", "", "constructor"},
            b \in BOOLEAN}
    \cup {LegacyEvent(Str("onboarding.protection.assigned"),
                      Obj([level |-> Str("warn"), trigger |-> Str(t), fileType |-> Str(ft),
                           isFirstProtection |-> Bool(FALSE)]), Num(7)) :
            t \in {"manual", ""}, ft \in {"json", ""}}
    \cup {LegacyEvent(Str("snapshot.created"),
                      Obj([method |-> Str("manual"), filesCount |-> n]), Num(7)) :
            n \in LegacyNumbers}
    \cup {LegacyEvent(Str("snapback.used"),
                      Obj([filesRestored |-> n, duration |-> d, success |-> Bool(b)]), Num(7)) :
            n \in LegacyNumbers, d \in {Num(1500), Half(0), NaN}, b \in BOOLEAN}
    \cup {LegacyEvent(Str("risk.detected"),
                      Obj([riskLevel |-> Str(l), patterns |-> a, confidence |-> Half(0)]),
                      Num(7)) :
            l \in {"low", "medium", "high", "critical", "severe", "constructor"},
            a \in PatternArrays}
    \cup {LegacyEvent(Str("command.execution"),
                      Obj([command |-> Str("save"), duration |-> d, success |-> Bool(b)]),
                      Num(7)) :
            d \in {Num(3), NaN}, b \in BOOLEAN}

MalformedValues ==
    {Str("x"), Str("3"), Num(1), Bool(FALSE), Null, NaN, Arr(<<>>), Arr(<<Num(1)>>),
     Arr(<<Str("api_key"), Num(1)>>), Arr(<<Str("mock"), Num(1)>>), Obj(<<>>)}

\* events with a missing or ill-typed part
MalformedLegacyEvents ==
    UNION {
        {Without(SampleLegacy(tag), "properties"), Without(SampleLegacy(tag), "timestamp")}
        \cup {With(SampleLegacy(tag), "properties", x) :
                x \in {Null, Str("x"), Num(1), Arr(<<>>), Obj(<<>>)}}
        \cup {With(SampleLegacy(tag), "timestamp", x) : x \in {Str("7"), NaN, Null}}
        \cup {With(SampleLegacy(tag), "properties",
                   Without(Get(SampleLegacy(tag), "properties"), f)) :
                f \in DOMAIN LegacyShape(tag)}
        \cup UNION {{With(SampleLegacy(tag), "properties",
                          With(Get(SampleLegacy(tag), "properties"), f, x)) :
                        x \in {y \in MalformedValues : ~LegacyTypeOk(LegacyShape(tag)[f], y)}} :
                    f \in DOMAIN LegacyShape(tag)}
        : tag \in TELEMETRY_EVENTS}

\* events with a tag outside the enumeration, and values that are no event
ForeignLegacyEvents ==
    {With(SampleLegacy("snapshot.created"), "event", t) :
        t \in {Str("custom.event"), Str("save_attempt"), Str(""), Num(1), Null}}
    \cup {Without(SampleLegacy("snapshot.created"), "event")}
    \cup {Null, Undefined, Num(5), Str("snapshot.created"), Arr(<<>>), Obj(<<>>)}

LegacyInputs == TypedLegacyEvents \cup MalformedLegacyEvents \cup ForeignLegacyEvents

\* a legacy event as the declared types want it: an object with a known tag,
\* an object of properties that validateTelemetryEvent accepts, and a numeric
\* timestamp
LegacyWellFormed(e) ==
    /\ e.k = "object"
    /\ Get(e, "properties").k = "object"
    /\ validateTelemetryEvent(e)
    /\ Get(e, "timestamp").k = "number"

(***************************************************************************)
(* Calls of the two mappers on one legacy event                            *)
(***************************************************************************)
\* time passes
Tick ==
    /\ clock < MaxClock
    /\ clock' = clock + 1

\* TelemetryEventMapper.mapEvent(mEvent), telemetry module
CallStaticMapEvent ==
    /\ Len(sCalls) < MaxCalls
    /\ sCalls' = Append(sCalls, [at |-> clock, res |-> StaticMapEvent(mEvent, clock)])
    /\ UNCHANGED <<clock, mEvent, iCalls, vvars, dvars, tvars, rvars, bvars>>

\* telemetryEventMapper.mapEvent(mEvent), events/migrate.ts
CallInstanceMapEvent ==
    /\ Len(iCalls) < MaxCalls
    /\ iCalls' = Append(iCalls, [at |-> clock, res |-> InstanceMapEvent(mEvent, clock)])
    /\ UNCHANGED <<clock, mEvent, sCalls, vvars, dvars, tvars, rvars, bvars>>

TickMapper ==
    /\ Tick
    /\ UNCHANGED <<vvars, mvars, dvars, tvars, rvars, bvars>>

InitMapper ==
    /\ clock = 1
    /\ mEvent \in LegacyInputs
    /\ sCalls = <<>>
    /\ iCalls = <<>>
    /\ ValidatorIdle
    /\ DriverIdle
    /\ TriggersIdle
    /\ RiskIdle
    /\ BusIdle

NextMapper ==
    \/ CallStaticMapEvent
    \/ CallInstanceMapEvent
    \/ TickMapper

SpecMapper == InitMapper /\ [][NextMapper]_vars

(***************************************************************************)
(* The migration driver: main() of the migration script                    *)
(***************************************************************************)
MaxBatch == 3

\* args[0] and the values of args[1]: paths as sequences of tokens, no token
\* but ".json" holding a part of the text ".json"
InputFile == <<"in", ".json">>
OutputFiles ==
    {<<"out", ".json">>, <<"out", ".txt">>, <<"out">>, <<"d", ".json", "/", "out", ".json">>}

\* the elements a batch is made of: two events with a canonical mapping, one
\* without, and malformed records
BatchElements ==
    {SampleLegacy("snapshot.created"), SampleLegacy("onboarding.protection.assigned"),
     SampleLegacy("view.activated"), Without(SampleLegacy("risk.detected"), "properties"),
     With(SampleLegacy("snapback.used"), "properties",
          With(Get(SampleLegacy("snapback.used"), "properties"), "filesRestored", Num(-1))),
     Num(5), Null}

\* what JSON.parse may return: an array of at most MaxBatch elements or another value
ParsedInputs ==
    UNION {{Arr(a) : a \in [1..n -> BatchElements]} : n \in 0..MaxBatch}
    \cup {Obj(<<>>), SampleLegacy("snapshot.created"), Null, Str("[]"), Num(0)}

\* contents of the input file: text that is no JSON, or the text of a value
FileContents == {[ok |-> FALSE]} \cup {[ok |-> TRUE, val |-> v] : v \in ParsedInputs}

\* a few contents, tried with every output path and argument count
SmallContents ==
    {[ok |-> FALSE], [ok |-> TRUE, val |-> Obj(<<>>)], [ok |-> TRUE, val |-> Arr(<<>>)],
     [ok |-> TRUE, val |-> Arr(<<SampleLegacy("view.activated")>>)],
     [ok |-> TRUE, val |-> Arr(<<SampleLegacy("snapshot.created")>>)],
     [ok |-> TRUE, val |-> Arr(<<SampleLegacy("snapshot.created"),
                                 SampleLegacy("view.activated")>>)]}

\* the failed run ends with exit code 0
FailQuietly(why) ==
    /\ pc' = "failed"
    /\ exitCode' = 0
    /\ failure' = why

\* main ends with process.exit(1); an entry point called from a program
\* throws to its caller
Fail(why) ==
    /\ pc' = "failed"
    /\ exitCode' = IF entry = "main" THEN 1 ELSE exitCode
    /\ failure' = why

\* if (args.length < 2) { usage; process.exit(1) }
CheckArgs ==
    /\ pc = "start"
    /\ IF argc < 2 THEN Fail("usage")
       ELSE pc' = "read" /\ UNCHANGED <<exitCode, failure>>
    /\ UNCHANGED <<clock, legacyEvents, idx, coreEvents, unmappedEvents, coreFrom,
                   unmappedFrom, mappedAt, written, denv, nReads,
                   vvars, mvars, tvars, rvars, bvars>>

\* readFileSync(inputFile, "utf8"); an exception is caught by main's try/catch
ReadInput ==
    /\ pc = "read"
    /\ nReads' = nReads + 1
    /\ IF inputReadable THEN pc' = "parse" /\ UNCHANGED <<exitCode, failure>>
       ELSE Fail("read")
    /\ UNCHANGED <<clock, legacyEvents, idx, coreEvents, unmappedEvents, coreFrom,
                   unmappedFrom, mappedAt, written, denv, vvars, mvars, tvars, rvars, bvars>>

\* JSON.parse(inputData); a SyntaxError is caught by main's try/catch
ParseInput ==
    /\ pc = "parse"
    /\ IF inputJson.ok
       THEN /\ legacyEvents' = inputJson.val
            /\ pc' = "parsed"
            /\ UNCHANGED <<exitCode, failure>>
       ELSE /\ Fail("parse")
            /\ UNCHANGED legacyEvents
    /\ UNCHANGED <<clock, idx, coreEvents, unmappedEvents, coreFrom, unmappedFrom,
                   mappedAt, written, denv, nReads, vvars, mvars, tvars, rvars, bvars>>

\* if (!Array.isArray(legacyEvents)) throw ...: caught, exit code 1
CheckArray ==
    /\ pc = "parsed"
    /\ IF legacyEvents.k = "array"
       THEN pc' = "loop" /\ UNCHANGED <<exitCode, failure>>
       ELSE Fail("notarray")
    /\ UNCHANGED <<clock, legacyEvents, idx, coreEvents, unmappedEvents, coreFrom,
                   unmappedFrom, mappedAt, written, denv, nReads,
                   vvars, mvars, tvars, rvars, bvars>>

\* an event without a mapping is dropped, as mapLegacyEventsToCore drops it
RouteDropsUnmapped(core, unmapped, cFrom, uFrom, e, i, v) ==
    IF Truthy(v)
    THEN [core |-> Append(core, v), unmapped |-> unmapped,
          cFrom |-> Append(cFrom, i), uFrom |-> uFrom]
    ELSE [core |-> core, unmapped |-> unmapped, cFrom |-> cFrom, uFrom |-> uFrom]

\* the buckets after the mapper's answer v for element e, the i-th of the input
Route(core, unmapped, cFrom, uFrom, e, i, v) ==
    IF Truthy(v)
    THEN [core |-> Append(core, v), unmapped |-> unmapped,
          cFrom |-> Append(cFrom, i), uFrom |-> uFrom]
    ELSE [core |-> core, unmapped |-> Append(unmapped, e),
          cFrom |-> cFrom, uFrom |-> Append(uFrom, i)]

\* one turn of the for loop; an exception of mapEvent is caught by main's
\* try/catch: exit code 1
MapNext ==
    /\ pc = "loop"
    /\ idx < Len(legacyEvents.a)
    /\ LET e == legacyEvents.a[idx + 1]
           r == StaticMapEvent(e, clock)
           b == Route(coreEvents, unmappedEvents, coreFrom, unmappedFrom, e, idx + 1, r.val)
       IN IF r.thrown
          THEN /\ Fail("map")
               /\ UNCHANGED <<idx, coreEvents, unmappedEvents, coreFrom, unmappedFrom,
                              mappedAt>>
          ELSE /\ coreEvents' = b.core
               /\ unmappedEvents' = b.unmapped
               /\ coreFrom' = b.cFrom
               /\ unmappedFrom' = b.uFrom
               /\ mappedAt' = Append(mappedAt, clock)
               /\ idx' = idx + 1
               /\ UNCHANGED <<pc, exitCode, failure>>
    /\ UNCHANGED <<clock, legacyEvents, written, denv, nReads, vvars, mvars, tvars, rvars, bvars>>

\* writeFileSync(outputFile, JSON.stringify(coreEvents)); it may throw
WriteCore ==
    /\ pc = "loop"
    /\ idx = Len(legacyEvents.a)
    /\ \/ /\ written' = Append(written, [file |-> outputFile, content |-> coreEvents])
          /\ pc' = "written"
          /\ UNCHANGED <<exitCode, failure>>
       \/ /\ Fail("write")
          /\ UNCHANGED written
    /\ UNCHANGED <<clock, legacyEvents, idx, coreEvents, unmappedEvents, coreFrom,
                   unmappedFrom, mappedAt, denv, nReads, vvars, mvars, tvars, rvars, bvars>>

\* every occurrence of the token is replaced
ReplaceEvery(path, token, by) ==
    LET RECURSIVE Go(_)
        Go(i) == IF i > Len(path) THEN <<>>
                 ELSE (IF path[i] = token THEN by ELSE <<path[i]>>) \o Go(i + 1)
    IN Go(1)

\* path.replace(token, by) for a string pattern: the first occurrence only
ReplaceFirst(path, token, by) ==
    LET RECURSIVE Go(_)
        Go(i) == IF i > Len(path) THEN <<>>
                 ELSE IF path[i] = token THEN by \o SubSeq(path, i + 1, Len(path))
                 ELSE <<path[i]>> \o Go(i + 1)
    IN Go(1)

\* outputFile.replace(".json", "-unmapped.json")
UnmappedFileOf(file) == ReplaceFirst(file, ".json", <<"-unmapped", ".json">>)

\* if (unmappedEvents.length > 0) writeFileSync(unmappedFile, ...), which may
\* throw; the run ends with "Migration completed successfully!"
Finish ==
    /\ pc = "written"
    /\ \/ /\ written' = IF Len(unmappedEvents) > 0
                        THEN Append(written, [file |-> UnmappedFileOf(outputFile),
                                              content |-> unmappedEvents])
                        ELSE written
          /\ pc' = "done"
          /\ exitCode' = 0
          /\ UNCHANGED failure
       \/ /\ Len(unmappedEvents) > 0
          /\ Fail("write")
          /\ UNCHANGED written
    /\ UNCHANGED <<clock, legacyEvents, idx, coreEvents, unmappedEvents, coreFrom,
                   unmappedFrom, mappedAt, denv, nReads, vvars, mvars, tvars, rvars, bvars>>

TickDriver ==
    /\ pc \in {"parsed", "loop", "written"}
    /\ Tick
    /\ UNCHANGED <<vvars, mvars, dvars, tvars, rvars, bvars>>

RECURSIVE MapAllFrom(_, _, _)
\* events.map(mapEvent).filter(e => e !== null) from element i on: [thrown, val]
MapAllFrom(events, i, now) ==
    IF i > Len(events) THEN [thrown |-> FALSE, val |-> <<>>]
    ELSE LET r == StaticMapEvent(events[i], now)
             rest == MapAllFrom(events, i + 1, now)
         IN IF r.thrown \/ rest.thrown THEN [thrown |-> TRUE, val |-> <<>>]
            ELSE [thrown |-> FALSE,
                  val |-> (IF r.val # Null THEN <<r.val>> ELSE <<>>) \o rest.val]

\* a value that is no array is taken for an empty one
mapLegacyEventsToCoreLenient(events, now) ==
    IF events.k # "array" THEN [thrown |-> FALSE, val |-> <<>>]
    ELSE MapAllFrom(events.a, 1, now)

\* mapLegacyEventsToCore(events): a value without a map method raises a TypeError
mapLegacyEventsToCore(events, now) ==
    IF events.k # "array" THEN [thrown |-> TRUE, val |-> <<>>]
    ELSE MapAllFrom(events.a, 1, now)

\* migrateLegacyEventsToFile: readFileSync(inputFile, "utf8")
ApiRead ==
    /\ pc = "api_read"
    /\ nReads' = nReads + 1
    /\ IF inputReadable THEN pc' = "api_parse" /\ UNCHANGED <<exitCode, failure>>
       ELSE Fail("read")
    /\ UNCHANGED <<clock, legacyEvents, idx, coreEvents, unmappedEvents, coreFrom,
                   unmappedFrom, mappedAt, written, denv, vvars, mvars, tvars, rvars, bvars>>

\* migrateLegacyEventsToFile: JSON.parse(inputData)
ApiParse ==
    /\ pc = "api_parse"
    /\ IF inputJson.ok
       THEN /\ legacyEvents' = inputJson.val
            /\ pc' = "api_map"
            /\ UNCHANGED <<exitCode, failure>>
       ELSE /\ Fail("parse")
            /\ UNCHANGED legacyEvents
    /\ UNCHANGED <<clock, idx, coreEvents, unmappedEvents, coreFrom, unmappedFrom,
                   mappedAt, written, denv, nReads, vvars, mvars, tvars, rvars, bvars>>

\* mapLegacyEventsToCore(legacyEvents), then the return of
\* migrateLegacyEventsToArray or the way to the write of migrateLegacyEventsToFile
ApiMap ==
    /\ pc = "api_map"
    /\ LET r == mapLegacyEventsToCore(legacyEvents, clock)
       IN IF r.thrown
          THEN /\ Fail(IF legacyEvents.k = "array" THEN "map" ELSE "notarray")
               /\ apiResult' = IF entry = "toArray" THEN [thrown |-> TRUE, val |-> Undefined]
                                ELSE apiResult
               /\ UNCHANGED coreEvents
          ELSE /\ coreEvents' = r.val
               /\ apiResult' = IF entry = "toArray" THEN [thrown |-> FALSE, val |-> Arr(r.val)]
                                ELSE apiResult
               /\ pc' = IF entry = "toArray" THEN "done" ELSE "api_write"
               /\ UNCHANGED <<exitCode, failure>>
    /\ UNCHANGED <<clock, legacyEvents, idx, unmappedEvents, coreFrom, unmappedFrom,
                   mappedAt, written, argc, outputFile, inputReadable, inputJson, entry,
                   nReads, vvars, mvars, tvars, rvars, bvars>>

\* migrateLegacyEventsToFile: writeFileSync(outputFile, ...), which may throw
ApiWrite ==
    /\ pc = "api_write"
    /\ \/ /\ written' = Append(written, [file |-> outputFile, content |-> coreEvents])
          /\ pc' = "done"
          /\ UNCHANGED <<exitCode, failure>>
       \/ /\ Fail("write")
          /\ UNCHANGED written
    /\ UNCHANGED <<clock, legacyEvents, idx, coreEvents, unmappedEvents, coreFrom,
                   unmappedFrom, mappedAt, denv, nReads, vvars, mvars, tvars, rvars, bvars>>

\* the start of main, of migrateLegacyEventsToFile or of
\* migrateLegacyEventsToArray
Entered ==
    \/ /\ entry = "main"
       /\ pc = "start"
       /\ legacyEvents = Undefined
       /\ \/ /\ argc = 2
             /\ outputFile = <<"out", ".json">>
             /\ inputReadable = TRUE
             /\ inputJson \in FileContents
          \/ /\ argc \in {2, 3}
             /\ outputFile \in OutputFiles
             /\ inputReadable \in BOOLEAN
             /\ inputJson \in SmallContents
          \/ /\ argc \in {0, 1}
             /\ outputFile = <<>>
             /\ inputReadable = TRUE
             /\ inputJson \in SmallContents
    \/ /\ entry = "toFile"
       /\ pc = "api_read"
       /\ legacyEvents = Undefined
       /\ argc = 0
       /\ outputFile = <<"out", ".json">>
       /\ \/ inputReadable = TRUE /\ inputJson \in FileContents
          \/ inputReadable = FALSE /\ inputJson \in SmallContents
    \/ /\ entry = "toArray"
       /\ pc = "api_map"
       /\ legacyEvents \in ParsedInputs
       /\ argc = 0
       /\ outputFile = <<>>
       /\ inputReadable = FALSE
       /\ inputJson = [ok |-> FALSE]

Init ==
    /\ clock = 1
    /\ Entered
    /\ apiResult = Undefined
    /\ idx = 0
    /\ coreEvents = <<>>
    /\ unmappedEvents = <<>>
    /\ coreFrom = <<>>
    /\ unmappedFrom = <<>>
    /\ mappedAt = <<>>
    /\ written = <<>>
    /\ exitCode = -1
    /\ nReads = 0
    /\ failure = ""
    /\ ValidatorIdle
    /\ MapperIdle
    /\ TriggersIdle
    /\ RiskIdle
    /\ BusIdle

Next ==
    \/ CheckArgs
    \/ ReadInput
    \/ ParseInput
    \/ CheckArray
    \/ MapNext
    \/ WriteCore
    \/ Finish
    \/ ApiRead
    \/ ApiParse
    \/ ApiMap
    \/ ApiWrite
    \/ TickDriver

Spec == Init /\ [][Next]_vars

(***************************************************************************)
(* Trigger bitmasks: encodeTriggerBitmask and decodeTriggerBitmask         *)
(***************************************************************************)
MaxTriggers == 3
MaxMask == 40
MaxSteps == 4

\* z.enum(["filewatch", "pre-commit", "manual", "idle-finalize"])
SessionTriggerSchema == {"filewatch", "pre-commit", "manual", "idle-finalize"}

\* bit b (a power of two) of the two's complement form of n: 0 or 1
Bit(n, b) == (n \div b) % 2

\* m + b stands where m | b is due
OrAdds(m, b) == m + b

\* the test looks at every bit of m up to b
AndUpTo(m, b) == IF m % (2 * b) # 0 THEN b ELSE 0

\* m | b and m & b for b a power of two
Or(m, b) == IF Bit(m, b) = 1 THEN m ELSE m + b
And(m, b) == Bit(m, b) * b

\* the switch has no case for "idle-finalize"
EncodeStepWithoutIdle(mask, trigger) ==
    CASE trigger = "filewatch" -> Or(mask, 1)
      [] trigger = "pre-commit" -> Or(mask, 2)
      [] trigger = "manual" -> Or(mask, 4)
      [] OTHER -> mask

\* the case of the switch that trigger takes; a value outside the
\* enumeration takes none
EncodeStep(mask, trigger) ==
    CASE trigger = "filewatch" -> Or(mask, 1)
      [] trigger = "pre-commit" -> Or(mask, 2)
      [] trigger = "manual" -> Or(mask, 4)
      [] trigger = "idle-finalize" -> Or(mask, 8)
      [] OTHER -> mask

RECURSIVE EncodeFrom(_, _, _)
\* the for loop of encodeTriggerBitmask from element i on
EncodeFrom(triggers, i, mask) ==
    IF i > Len(triggers) THEN mask
    ELSE EncodeFrom(triggers, i + 1, EncodeStep(mask, triggers[i]))

encodeTriggerBitmask(triggers) == EncodeFrom(triggers, 1, 0)

\* the tests for 4 and 8 push each other's trigger
decodeTriggerBitmaskSwapped(mask) ==
    (IF And(mask, 1) # 0 THEN <<"filewatch">> ELSE <<>>)
    \o (IF And(mask, 2) # 0 THEN <<"pre-commit">> ELSE <<>>)
    \o (IF And(mask, 4) # 0 THEN <<"idle-finalize">> ELSE <<>>)
    \o (IF And(mask, 8) # 0 THEN <<"manual">> ELSE <<>>)

decodeTriggerBitmask(mask) ==
    (IF And(mask, 1) # 0 THEN <<"filewatch">> ELSE <<>>)
    \o (IF And(mask, 2) # 0 THEN <<"pre-commit">> ELSE <<>>)
    \o (IF And(mask, 4) # 0 THEN <<"manual">> ELSE <<>>)
    \o (IF And(mask, 8) # 0 THEN <<"idle-finalize">> ELSE <<>>)

\* the sequences of at most MaxTriggers triggers, a value outside the
\* enumeration among them
TriggerInputs ==
    UNION {[1..n -> SessionTriggerSchema \cup {"other"}] : n \in 0..MaxTriggers}

MaskInputs == (-MaxMask)..MaxMask

\* encodeTriggerBitmask(tSeq)
CallEncode ==
    /\ tPhase = "seq"
    /\ Len(tHist) < MaxSteps
    /\ tMask' = encodeTriggerBitmask(tSeq)
    /\ tHist' = Append(tHist, [op |-> "encode", seq |-> tSeq,
                               mask |-> encodeTriggerBitmask(tSeq)])
    /\ tPhase' = "mask"
    /\ UNCHANGED <<clock, tSeq, vvars, mvars, dvars, rvars, bvars>>

\* decodeTriggerBitmask(tMask)
CallDecode ==
    /\ tPhase = "mask"
    /\ Len(tHist) < MaxSteps
    /\ tSeq' = decodeTriggerBitmask(tMask)
    /\ tHist' = Append(tHist, [op |-> "decode", seq |-> decodeTriggerBitmask(tMask),
                               mask |-> tMask])
    /\ tPhase' = "seq"
    /\ UNCHANGED <<clock, tMask, vvars, mvars, dvars, rvars, bvars>>

InitTriggers ==
    /\ clock = 1
    /\ \/ tPhase = "seq" /\ tSeq \in TriggerInputs /\ tMask = 0
       \/ tPhase = "mask" /\ tMask \in MaskInputs /\ tSeq = <<>>
    /\ tHist = <<>>
    /\ ValidatorIdle
    /\ MapperIdle
    /\ DriverIdle
    /\ RiskIdle
    /\ BusIdle

NextTriggers ==
    \/ CallEncode
    \/ CallDecode

SpecTriggers == InitTriggers /\ [][NextTriggers]_vars

(***************************************************************************)
(* Risk score utilities.  A finite score is a whole number q of units,     *)
(* RUnit units to 1, so that the decimal scores of the model, their        *)
(* tenfold and their tenth are exact.                                      *)
(***************************************************************************)
MaxTenths == 110
MaxDecimals == 2

RUnit == 10000

Fix(q) == [k |-> "fix", q |-> q]
Whole(n) == Fix(n * RUnit)
PosInf == [k |-> "inf", neg |-> FALSE]
NegInf == [k |-> "inf", neg |-> TRUE]

\* a <= b stands where a < b is due
LessOrEqual(a, b) ==
    CASE a.k = "nan" \/ b.k = "nan" -> FALSE
      [] a.k = "inf" -> a.neg \/ b = a
      [] b.k = "inf" -> ~b.neg
      [] OTHER -> a.q <= b.q

\* a < b; false when an operand is NaN
Less(a, b) ==
    CASE a.k = "nan" \/ b.k = "nan" -> FALSE
      [] a.k = "inf" -> a.neg /\ b # a
      [] b.k = "inf" -> ~b.neg
      [] OTHER -> a.q < b.q

\* the second argument is returned whatever the first is
MathMaxSecond(a, b) == b

\* Math.max(a, b) and Math.min(a, b); NaN when an argument is NaN
MathMax(a, b) ==
    IF a.k = "nan" \/ b.k = "nan" THEN NaN ELSE IF Less(a, b) THEN b ELSE a
MathMin(a, b) ==
    IF a.k = "nan" \/ b.k = "nan" THEN NaN ELSE IF Less(b, a) THEN b ELSE a

\* x * c for a positive integer c
Scaled(x, c) == IF x.k = "fix" THEN Fix(x.q * c) ELSE x

\* x / c for a positive integer c that divides the units of x
Shrunk(x, c) == IF x.k = "fix" THEN Fix(x.q \div c) ELSE x

convertRisk_0_1_to_0_10(score) == MathMin(Whole(10), MathMax(Whole(0), Scaled(score, 10)))

convertRisk_0_100_to_0_10(score) == MathMin(Whole(10), MathMax(Whole(0), Shrunk(score, 10)))

\* the switch has no default: another scale gives undefined
normalizeRiskScore(score, fromScale) ==
    CASE fromScale = "0-1" -> convertRisk_0_1_to_0_10(score)
      [] fromScale = "0-10" -> MathMin(Whole(10), MathMax(Whole(0), score))
      [] fromScale = "0-100" -> convertRisk_0_100_to_0_10(score)
      [] OTHER -> Undefined

getSeverity(score) ==
    LET normalizedScore == MathMin(Whole(10), MathMax(Whole(0), score))
    IN IF Less(normalizedScore, Whole(3)) THEN "low"
       ELSE IF Less(normalizedScore, Whole(5)) THEN "medium"
       ELSE IF Less(normalizedScore, Whole(7)) THEN "high"
       ELSE "critical"

\* Math.round(x): the integer nearest to x, the greater one at a tie
MathRound(x) ==
    IF x.k = "fix" THEN Fix(((x.q + RUnit \div 2) \div RUnit) * RUnit) ELSE x

\* decimals = 1 when the argument is omitted
DecimalsOrDefault(decimals) == IF decimals = Undefined THEN 1 ELSE decimals.n

roundRiskScore(score, decimals) ==
    LET multiplier == 10 ^ DecimalsOrDefault(decimals)
    IN Shrunk(MathRound(Scaled(score, multiplier)), multiplier)

RiskScales == {"0-1", "0-10", "0-100"}

\* the tenths from -3 to MaxTenths / 10, finer scores about zero, scores of
\* the 0-100 scale, and the numbers that are no decimal
RiskScores ==
    {Fix(t * (RUnit \div 10)) : t \in -30..MaxTenths}
    \cup {Fix(m * (RUnit \div 1000)) : m \in {-250, -125, -50, -25, -5, 5, 25, 50, 125, 250,
                                            5123, -5123}}
    \cup {Whole(n) : n \in {-5, 50, 80, 100, 150}}
    \cup {NaN, PosInf, NegInf}

DecimalsInputs == {Undefined} \cup {Num(d) : d \in 0..MaxDecimals}

CallNormalize ==
    /\ rNormalized = Undefined
    /\ rNormalized' = normalizeRiskScore(rScore, rScale)
    /\ UNCHANGED <<clock, rScore, rScale, rDecimals, rSeverity, rRounded,
                   vvars, mvars, dvars, tvars, bvars>>

CallGetSeverity ==
    /\ rSeverity = ""
    /\ rSeverity' = getSeverity(rScore)
    /\ UNCHANGED <<clock, rScore, rScale, rDecimals, rNormalized, rRounded,
                   vvars, mvars, dvars, tvars, bvars>>

CallRound ==
    /\ rRounded = Undefined
    /\ rRounded' = roundRiskScore(rScore, rDecimals)
    /\ UNCHANGED <<clock, rScore, rScale, rDecimals, rNormalized, rSeverity,
                   vvars, mvars, dvars, tvars, bvars>>

InitRisk ==
    /\ clock = 1
    /\ rScore \in RiskScores
    /\ rScale \in RiskScales
    /\ rDecimals \in DecimalsInputs
    /\ rNormalized = Undefined
    /\ rSeverity = ""
    /\ rRounded = Undefined
    /\ ValidatorIdle
    /\ MapperIdle
    /\ DriverIdle
    /\ TriggersIdle
    /\ BusIdle

NextRisk ==
    \/ CallNormalize
    \/ CallGetSeverity
    \/ CallRound

SpecRisk == InitRisk /\ [][NextRisk]_vars

(***************************************************************************)
(* EventBus.  A Set is the sequence of its elements in insertion order; a   *)
(* handler runs from its invocation to its return or its throw, and calls  *)
(* of on and of the closures on returned may come while it runs.           *)
(***************************************************************************)
MaxBusCalls == 5

\* the calls of on and of emit that are made
Registrations == {<<"a", "h1">>, <<"a", "h2">>, <<"b", "h1">>}
Emits == {<<"a", "p">>, <<"a", "q">>, <<"b", "p">>}

\* the calls of on, of closures and of emit so far
BusCalls == Len(bSubs) + Len(bUnsubs) + Len(bLog)

Elems(set) == {set[i] : i \in DOMAIN set}

\* an element the Set holds already is added once more
SetAddAgain(set, h) == Append(set, h)

\* the first element of the Set is deleted, whatever h is
SetDeleteFirst(set, h) == IF set = <<>> THEN set ELSE Tail(set)

\* Set.prototype.add: an element the Set holds keeps its place
SetAdd(set, h) == IF h \in Elems(set) THEN set ELSE Append(set, h)

\* Set.prototype.delete
SetDelete(set, h) == SelectSeq(set, LAMBDA x : x # h)

\* this.m.get(k) ?? new Set()
GetOrNew(k) == IF k \in DOMAIN bSets THEN bSets[k] ELSE <<>>

\* an emit is between its start and its end: one of its handlers runs
Emitting == bLog # <<>> /\ bLog[Len(bLog)].state = "running"

\* on(k, h), called by the program or by a running handler
On(k, h) ==
    /\ BusCalls < MaxBusCalls
    /\ bSets' = (k :> SetAdd(GetOrNew(k), h)) @@ bSets
    /\ bSubs' = Append([i \in DOMAIN bSubs |->
                           IF bSubs[i].k = k /\ bSubs[i].h = h /\ bSubs[i].calls > 0
                           THEN [bSubs[i] EXCEPT !.readded = TRUE] ELSE bSubs[i]],
                       [k |-> k, h |-> h, calls |-> 0, readded |-> FALSE])
    /\ bRegAt' = IF h \in Elems(GetOrNew(k)) THEN bRegAt
                 ELSE [bRegAt EXCEPT ![<<k, h>>] = Len(bSubs) + 1]
    /\ UNCHANGED <<clock, bLog, bUnsubs, vvars, mvars, dvars, tvars, rvars>>

\* the closure that the i-th call of on returned: set.delete(h)
Unsubscribe(i) ==
    /\ i \in DOMAIN bSubs
    /\ BusCalls < MaxBusCalls
    /\ LET k == bSubs[i].k
           h == bSubs[i].h
           after == [bSets EXCEPT ![k] = SetDelete(@, h)]
       IN /\ bSets' = after
          /\ bUnsubs' = Append(bUnsubs, [sub |-> i, k |-> k, h |-> h,
                                         nth |-> bSubs[i].calls + 1,
                                         readded |-> bSubs[i].readded,
                                         before |-> bSets, after |-> after])
          /\ bSubs' = [bSubs EXCEPT ![i].calls = @ + 1, ![i].readded = FALSE]
          /\ bRegAt' = [bRegAt EXCEPT ![<<k, h>>] = 0]
    /\ UNCHANGED <<clock, bLog, vvars, mvars, dvars, tvars, rvars>>

\* emit(k, p) up to the invocation of its first handler; with no handler it
\* ends at once
EmitStart(k, p) ==
    /\ ~Emitting
    /\ BusCalls < MaxBusCalls
    /\ LET handlersArray == GetOrNew(k)
       IN bLog' = Append(bLog,
              [k |-> k, p |-> p, atStart |-> handlersArray,
               regAt |-> [h \in Handlers |-> bRegAt[<<k, h>>]],
               invoked |-> IF handlersArray = <<>> THEN <<>>
                           ELSE <<[h |-> handlersArray[1], p |-> p]>>,
               state |-> IF handlersArray = <<>> THEN "done" ELSE "running"])
    /\ UNCHANGED <<clock, bSets, bSubs, bRegAt, bUnsubs, vvars, mvars, dvars, tvars, rvars>>

\* the running handler returns: the loop invokes the next element of
\* handlersArray, or the emit ends
HandlerReturns ==
    /\ Emitting
    /\ LET e == bLog[Len(bLog)]
           n == Len(e.invoked)
       IN bLog' = [bLog EXCEPT ![Len(bLog)] =
              IF n < Len(e.atStart)
              THEN [e EXCEPT !.invoked = Append(@, [h |-> e.atStart[n + 1], p |-> e.p])]
              ELSE [e EXCEPT !.state = "done"]]
    /\ UNCHANGED <<clock, bSets, bSubs, bRegAt, bUnsubs, vvars, mvars, dvars, tvars, rvars>>

\* the running handler throws: the exception leaves the loop and emit
HandlerThrows ==
    /\ Emitting
    /\ bLog' = [bLog EXCEPT ![Len(bLog)].state = "thrown"]
    /\ UNCHANGED <<clock, bSets, bSubs, bRegAt, bUnsubs, vvars, mvars, dvars, tvars, rvars>>

InitBus ==
    /\ clock = 1
    /\ BusIdle
    /\ ValidatorIdle
    /\ MapperIdle
    /\ DriverIdle
    /\ TriggersIdle
    /\ RiskIdle

NextBus ==
    \/ \E r \in Registrations : On(r[1], r[2])
    \/ \E i \in 1..MaxBusCalls : Unsubscribe(i)
    \/ \E e \in Emits : EmitStart(e[1], e[2])
    \/ HandlerReturns
    \/ HandlerThrows

SpecBus == InitBus /\ [][NextBus]_vars

(***************************************************************************)
(* Claims about the mappers (checked under SpecMapper)                     *)
(***************************************************************************)
Tag(v) == Get(v, "event")
Props(v) == Get(v, "properties")
Prop(v, f) == Get(Get(v, "properties"), f)

\* the canonical tag the mapping table gives a legacy tag, "" for none
MappingTable(tag) ==
    CASE tag = Str("onboarding.protection.assigned") -> "save_attempt"
      [] tag = Str("snapshot.created") -> "snapshot_created"
      [] tag = Str("snapback.used") -> "session_restored"
      [] tag = Str("risk.detected") -> "issue_created"
      [] OTHER -> ""

\* C1: the static mapEvent is total over the 17 legacy tags: a well-formed
\* onboarding.protection.assigned, snapshot.created, snapback.used or
\* risk.detected event gives a save_attempt, snapshot_created,
\* session_restored or issue_created event; every other tag, of the
\* enumeration or not, gives null.
C1_StaticMapperTotal ==
    \A i \in DOMAIN sCalls :
        (mEvent.k = "object") =>
            /\ ~sCalls[i].res.thrown
            /\ MappingTable(Tag(mEvent)) = "" => sCalls[i].res.val = Null
            /\ (MappingTable(Tag(mEvent)) # "" /\ LegacyWellFormed(mEvent))
                  => Tag(sCalls[i].res.val) = Str(MappingTable(Tag(mEvent)))

\* C2: mapEvent never throws: whatever the legacy record, each of the two
\* mapEvent implementations returns a canonical event or null.
C2_NeverThrows ==
    /\ \A i \in DOMAIN sCalls : ~sCalls[i].res.thrown
    /\ \A i \in DOMAIN iCalls : ~iCalls[i].res.thrown

\* the values the two mappers have returned
Returned ==
    {sCalls[i].res.val : i \in {j \in DOMAIN sCalls : ~sCalls[j].res.thrown}}
    \cup {iCalls[i].res.val : i \in {j \in DOMAIN iCalls : ~iCalls[j].res.thrown}}

\* C3: every value mapEvent returns other than null passes
\* validateCoreTelemetryEvent; a construction that would give an invalid
\* canonical event (a protection level outside the enumeration, a severity
\* that is no string) gives null instead.
C3_MappedIsValid ==
    /\ \A v \in Returned :
          v # Null => /\ validateCoreTelemetryEvent("v1", v, clock)
                      /\ validateCoreTelemetryEvent("core", v, clock)
    /\ \A i \in DOMAIN iCalls :
          (/\ ~iCalls[i].res.thrown
           /\ Tag(mEvent) = Str("onboarding.protection.assigned")
           /\ ~(Prop(mEvent, "level").k = "string"
                /\ Prop(mEvent, "level").s \in ProtectionEnum))
             => iCalls[i].res.val = Null
    /\ \A i \in DOMAIN sCalls :
          (/\ ~sCalls[i].res.thrown
           /\ Tag(mEvent) = Str("onboarding.protection.assigned")
           /\ Props(mEvent).k = "object"
           /\ Lookup(protectionMap, Prop(mEvent, "level")) = Function)
             => sCalls[i].res.val = Null

C3_Witness ==
    /\ Tag(mEvent) = Str("onboarding.protection.assigned")
    /\ Prop(mEvent, "level") = Str("low")
    /\ LegacyWellFormed(mEvent)
    /\ Len(sCalls) > 0 /\ Len(iCalls) > 0
    /\ Tag(sCalls[1].res.val) = Str("save_attempt")
    /\ validateCoreTelemetryEvent("v1", sCalls[1].res.val, clock)
    /\ iCalls[1].res = Ret(Null)

\* a mapped event without the fields that are read off the clock
WithoutClockFields(v) ==
    IF v.k # "object" THEN v
    ELSE LET w == With(v, "properties",
                       Without(Without(Props(v), "snapshot_id"), "issue_id"))
         IN IF Get(mEvent, "timestamp") = Undefined THEN Without(w, "timestamp") ELSE w

\* C10 as claimed: two applications of mapEvent to the same legacy event, at
\* any two moments, give results equal in every field, identifiers included.
C10_Deterministic ==
    \A i, j \in DOMAIN sCalls : sCalls[i].res = sCalls[j].res

\* C10 as amended: two applications of mapEvent to the same legacy event give
\* both null or events that agree in every field except snapshot_id and
\* issue_id (built from Date.now()) and, when the legacy event has no
\* timestamp, the defaulted timestamp; two applications at the same clock
\* reading agree in every field.
C10_DeterministicUpToClock ==
    /\ \A i, j \in DOMAIN sCalls :
          /\ sCalls[i].res.thrown = sCalls[j].res.thrown
          /\ WithoutClockFields(sCalls[i].res.val) = WithoutClockFields(sCalls[j].res.val)
          /\ sCalls[i].at = sCalls[j].at => sCalls[i].res = sCalls[j].res
    /\ \A i, j \in DOMAIN iCalls :
          /\ iCalls[i].res.thrown = iCalls[j].res.thrown
          /\ WithoutClockFields(iCalls[i].res.val) = WithoutClockFields(iCalls[j].res.val)
          /\ Get(mEvent, "timestamp") # Undefined => iCalls[i].res = iCalls[j].res
          /\ iCalls[i].at = iCalls[j].at => iCalls[i].res = iCalls[j].res

C10_Witness ==
    /\ Len(sCalls) >= 2
    /\ LegacyWellFormed(mEvent)
    /\ Tag(mEvent) = Str("snapshot.created")
    /\ sCalls[1].at # sCalls[2].at
    /\ Prop(sCalls[1].res.val, "snapshot_id") # Prop(sCalls[2].res.val, "snapshot_id")
    /\ Get(sCalls[1].res.val, "timestamp") = Get(sCalls[2].res.val, "timestamp")

\* the issue type the substring rules give a list of pattern strings
ExpectedIssueType(a) ==
    IF \E j \in DOMAIN a : Includes(a[j].s, "mock") \/ Includes(a[j].s, "test") THEN "mock"
    ELSE IF \E j \in DOMAIN a : Includes(a[j].s, "phantom") \/ Includes(a[j].s, "unused")
    THEN "phantom"
    ELSE "secret"

\* C11: for a risk.detected event with a list of pattern strings the static
\* mapper's issue_created has type mock if a pattern contains "mock" or
\* "test", otherwise phantom if a pattern contains "phantom" or "unused",
\* otherwise secret (the empty list included); the mock rule wins whatever the
\* order of the patterns.  With a riskLevel of the enumeration the event is
\* mapped.
C11_IssueTypeFromPatterns ==
    \A i \in DOMAIN sCalls :
        (/\ Tag(mEvent) = Str("risk.detected")
         /\ Prop(mEvent, "patterns").k = "array"
         /\ \A j \in DOMAIN Prop(mEvent, "patterns").a :
                Prop(mEvent, "patterns").a[j].k = "string")
        => /\ sCalls[i].res.val # Null =>
                Prop(sCalls[i].res.val, "type")
                    = Str(ExpectedIssueType(Prop(mEvent, "patterns").a))
           /\ (LegacyWellFormed(mEvent) /\ Prop(mEvent, "riskLevel").k = "string"
               /\ Prop(mEvent, "riskLevel").s \in SeverityEnum)
                => Tag(sCalls[i].res.val) = Str("issue_created")

C11_Witness ==
    /\ Len(sCalls) > 0
    /\ Tag(mEvent) = Str("risk.detected")
    /\ Prop(mEvent, "patterns") = Arr(<<Str("phantom"), Str("latest")>>)
    /\ Tag(sCalls[1].res.val) = Str("issue_created")
    /\ Prop(sCalls[1].res.val, "type") = Str("mock")

\* C12: for a risk.detected event the mapped issue_created has the legacy
\* riskLevel as severity when it is low, medium, high or critical, and medium
\* for every other riskLevel string; in both cases the result is an
\* issue_created event, not null.
C12_SeverityCarriedOver ==
    \A r \in {sCalls[i].res : i \in DOMAIN sCalls} \cup {iCalls[i].res : i \in DOMAIN iCalls} :
        (/\ Tag(mEvent) = Str("risk.detected")
         /\ LegacyWellFormed(mEvent)
         /\ Prop(mEvent, "riskLevel").k = "string")
        => /\ ~r.thrown
           /\ Tag(r.val) = Str("issue_created")
           /\ Prop(r.val, "severity") =
                 IF Prop(mEvent, "riskLevel").s \in SeverityEnum
                 THEN Prop(mEvent, "riskLevel") ELSE Str("medium")

\* C13: for a snapback.used event with numeric duration d, boolean success s
\* and a non-negative integer filesRestored n, mapEvent returns a
\* session_restored event with time_to_restore_ms = d, reason
\* "user_initiated" when s and "failed" when not, and n files_restored.
C13_SnapBackUsedFields ==
    \A r \in {sCalls[i].res : i \in DOMAIN sCalls} \cup {iCalls[i].res : i \in DOMAIN iCalls} :
        (/\ Tag(mEvent) = Str("snapback.used")
         /\ Get(mEvent, "timestamp").k = "number"
         /\ Prop(mEvent, "duration").k = "number"
         /\ Prop(mEvent, "success").k = "boolean"
         /\ Prop(mEvent, "filesRestored").k = "number"
         /\ ~Prop(mEvent, "filesRestored").h
         /\ Prop(mEvent, "filesRestored").n >= 0)
        => /\ ~r.thrown
           /\ Tag(r.val) = Str("session_restored")
           /\ Prop(r.val, "time_to_restore_ms") = Prop(mEvent, "duration")
           /\ Prop(r.val, "reason") =
                 IF Prop(mEvent, "success").b THEN Str("user_initiated") ELSE Str("failed")
           /\ Prop(r.val, "files_restored").k = "array"
           /\ Len(Prop(r.val, "files_restored").a) = Prop(mEvent, "filesRestored").n

\* C14: whenever mapEvent returns a value other than null for an
\* onboarding.protection.assigned event, the value is a save_attempt with
\* outcome "saved", ai_present false and ai_burst false, whatever level,
\* trigger and fileType are.
C14_OnboardingDefaults ==
    \A r \in {sCalls[i].res : i \in DOMAIN sCalls} \cup {iCalls[i].res : i \in DOMAIN iCalls} :
        (/\ Tag(mEvent) = Str("onboarding.protection.assigned")
         /\ ~r.thrown
         /\ r.val # Null)
        => /\ Tag(r.val) = Str("save_attempt")
           /\ Prop(r.val, "outcome") = Str("saved")
           /\ Prop(r.val, "ai_present") = Bool(FALSE)
           /\ Prop(r.val, "ai_burst") = Bool(FALSE)

C14_Witness ==
    /\ Len(sCalls) > 0 /\ Len(iCalls) > 0
    /\ Tag(mEvent) = Str("onboarding.protection.assigned")
    /\ Prop(mEvent, "level") = Str("warn")
    /\ Prop(mEvent, "trigger") = Str("manual")
    /\ Prop(mEvent, "isFirstProtection") = Bool(FALSE)
    /\ Prop(sCalls[1].res.val, "outcome") = Str("saved")
    /\ Prop(sCalls[1].res.val, "reason") = Str("onboarding_manual")
    /\ Prop(iCalls[1].res.val, "outcome") = Str("saved")
    /\ Prop(iCalls[1].res.val, "protection") = Str("warn")

\* C26: the two mapping tables disagree on onboarding.protection.assigned:
\* where the instance mapper returns an event its severity is the constant
\* "medium"; where the static mapper returns one its severity is the legacy
\* level if that is low, medium, high or critical and "low" otherwise; and
\* where both return an event for the same legacy event the two severities
\* differ.
C26_MappersDisagree ==
    (Tag(mEvent) = Str("onboarding.protection.assigned")) =>
        /\ \A j \in DOMAIN iCalls :
              (~iCalls[j].res.thrown /\ iCalls[j].res.val # Null) =>
                  Prop(iCalls[j].res.val, "severity") = Str("medium")
        /\ \A i \in DOMAIN sCalls :
              (~sCalls[i].res.thrown /\ sCalls[i].res.val # Null) =>
                  Prop(sCalls[i].res.val, "severity") =
                      IF Prop(mEvent, "level") \in
                             {Str("low"), Str("medium"), Str("high"), Str("critical")}
                      THEN Prop(mEvent, "level") ELSE Str("low")
        /\ \A i \in DOMAIN sCalls, j \in DOMAIN iCalls :
              (/\ ~sCalls[i].res.thrown /\ sCalls[i].res.val # Null
               /\ ~iCalls[j].res.thrown /\ iCalls[j].res.val # Null) =>
                  Prop(sCalls[i].res.val, "severity") # Prop(iCalls[j].res.val, "severity")

C26_Witness ==
    /\ Len(sCalls) > 0 /\ Len(iCalls) > 0
    /\ Tag(mEvent) = Str("onboarding.protection.assigned")
    /\ Prop(mEvent, "level") = Str("watch")
    /\ Prop(mEvent, "isFirstProtection") = Bool(TRUE)
    /\ ~sCalls[1].res.thrown /\ ~iCalls[1].res.thrown
    /\ Prop(sCalls[1].res.val, "severity") = Str("low")
    /\ Prop(iCalls[1].res.val, "severity") = Str("medium")
    /\ Prop(sCalls[1].res.val, "outcome") = Prop(iCalls[1].res.val, "outcome")

(***************************************************************************)
(* Claims about the migration driver (checked under Spec)                  *)
(***************************************************************************)
Increasing(f) == \A i, j \in DOMAIN f : i < j => f[i] < f[j]

\* C4: the driver partitions its input: every input event is in exactly one
\* bucket, its image in coreEvents or itself in unmappedEvents, so the two
\* lengths add up to the input's, and each bucket keeps the input's order.
C4_Partition ==
    (entry = "main" /\ pc \in {"loop", "written", "done"}) =>
        /\ Len(coreEvents) + Len(unmappedEvents) = idx
        /\ pc \in {"written", "done"} => idx = Len(legacyEvents.a)
        /\ Len(coreFrom) = Len(coreEvents)
        /\ Len(unmappedFrom) = Len(unmappedEvents)
        /\ Increasing(coreFrom) /\ Increasing(unmappedFrom)
        /\ {coreFrom[i] : i \in DOMAIN coreFrom}
             \cup {unmappedFrom[i] : i \in DOMAIN unmappedFrom} = 1..idx
        /\ \A i \in DOMAIN unmappedEvents :
              unmappedEvents[i] = legacyEvents.a[unmappedFrom[i]]
        /\ \A i \in DOMAIN coreEvents :
              coreEvents[i] =
                  StaticMapEvent(legacyEvents.a[coreFrom[i]], mappedAt[coreFrom[i]]).val

C4_Witness ==
    /\ pc = "done"
    /\ Len(legacyEvents.a) = MaxBatch
    /\ Len(coreEvents) = 2
    /\ Len(unmappedEvents) = MaxBatch - 2
    /\ coreFrom = <<1, MaxBatch>>
    /\ Tag(coreEvents[1]) = Str("save_attempt")
    /\ Tag(coreEvents[2]) = Str("snapshot_created")

\* C5: a single malformed record never fails the migration: whatever the
\* elements of the input array, the run does not abort, and a malformed
\* element ends in the unmapped bucket.
C5_MalformedNeverFails ==
    (entry = "main" /\ legacyEvents.k = "array") =>
        /\ failure # "map"
        /\ pc = "done" =>
              \A i \in DOMAIN legacyEvents.a :
                  ~LegacyWellFormed(legacyEvents.a[i]) =>
                      \E j \in DOMAIN unmappedFrom : unmappedFrom[j] = i

\* C21: the CLI ends with exit code 1 when it has fewer than two arguments
\* (and then it has read no file), when the input file cannot be read, when
\* its content is not valid JSON and when the parsed value is not an array;
\* a run that completes its writes ends with exit code 0, and no other run
\* does.
C21_ExitCodes ==
    (entry = "main") =>
        /\ (argc < 2 /\ pc # "start") =>
               pc = "failed" /\ exitCode = 1 /\ nReads = 0
        /\ (argc >= 2 /\ ~inputReadable /\ pc \notin {"start", "read"}) =>
               pc = "failed" /\ exitCode = 1
        /\ (argc >= 2 /\ inputReadable /\ ~inputJson.ok
                /\ pc \notin {"start", "read", "parse"}) =>
               pc = "failed" /\ exitCode = 1
        /\ (argc >= 2 /\ inputReadable /\ inputJson.ok /\ inputJson.val.k # "array"
                /\ pc \notin {"start", "read", "parse", "parsed"}) =>
               pc = "failed" /\ exitCode = 1
        /\ pc = "done" <=> exitCode = 0
        /\ pc = "failed" <=> exitCode = 1

C21_Witness ==
    /\ entry = "main"
    /\ pc = "failed"
    /\ failure = "notarray"
    /\ inputJson.ok /\ inputJson.val.k = "object"
    /\ exitCode = 1

\* C22: a run that aborts because the input file cannot be read, because its
\* content is not valid JSON or because the parsed value is not an array has
\* written no file; a file is written only after the read, the parse and the
\* walk over an array succeeded. This holds for the CLI and for
\* migrateLegacyEventsToFile.
C22_NoOutputBeforeAbort ==
    (entry \in {"main", "toFile"}) =>
        /\ failure \in {"usage", "read", "parse", "notarray", "map"} => written = <<>>
        /\ written # <<>> =>
              /\ nReads = 1
              /\ inputReadable
              /\ inputJson.ok
              /\ inputJson.val.k = "array"

C22_Witness ==
    /\ entry = "toFile"
    /\ pc = "failed"
    /\ failure = "notarray"
    /\ nReads = 1
    /\ written = <<>>

\* the text in front of the first ".json" of a path, and the text behind it
BeforeJson(path) ==
    LET first == CHOOSE i \in DOMAIN path :
                     path[i] = ".json" /\ \A j \in 1..(i - 1) : path[j] # ".json"
    IN SubSeq(path, 1, first - 1)

AfterJson(path) == SubSeq(path, Len(BeforeJson(path)) + 2, Len(path))

HasJson(path) == \E i \in DOMAIN path : path[i] = ".json"

\* C23 as the spec states it: the unmapped events go to a file named after
\* the input file, with -unmapped in front of its extension.
C23_UnmappedNamedAfterInput ==
    (entry = "main" /\ pc = "done" /\ Len(unmappedEvents) > 0) =>
        \E i \in DOMAIN written :
            written[i].file = <<"in", "-unmapped", ".json">>

\* C23: the CLI writes the unmapped events' file exactly when at least one
\* event is unmapped, with exactly the unmapped events in it; its path is the
\* output file's path with -unmapped put in front of the first ".json" in
\* it, and the output file's path itself when ".json" does not occur in it.
C23_UnmappedNamedAfterOutput ==
    (entry = "main" /\ pc = "done") =>
        /\ Len(written) = (IF Len(unmappedEvents) > 0 THEN 2 ELSE 1)
        /\ written[1] = [file |-> outputFile, content |-> coreEvents]
        /\ Len(unmappedEvents) > 0 =>
              /\ written[2].content = unmappedEvents
              /\ written[2].file =
                    IF HasJson(outputFile)
                    THEN BeforeJson(outputFile) \o <<"-unmapped", ".json">>
                             \o AfterJson(outputFile)
                    ELSE outputFile

C23_Witness ==
    /\ entry = "main"
    /\ pc = "done"
    /\ outputFile = <<"d", ".json", "/", "out", ".json">>
    /\ Len(written) = 2
    /\ written[2].file = <<"d", "-unmapped", ".json", "/", "out", ".json">>
    /\ written[2].content = unmappedEvents

\* C27 as the spec states it: the unmapped events' file is never the output
\* file, so the mapped events a run wrote are still there when it ends.
C27_UnmappedFileDiffers ==
    (entry = "main") =>
        /\ \A i, j \in DOMAIN written : i # j => written[i].file # written[j].file
        /\ pc = "done" =>
              \E i \in DOMAIN written :
                  /\ written[i] = [file |-> outputFile, content |-> coreEvents]
                  /\ \A j \in DOMAIN written : j > i => written[j].file # outputFile

\* C24 as the spec states it: migrateLegacyEventsToArray returns, and
\* migrateLegacyEventsToFile writes, every event without a mapping too.
C24_ApiKeepsUnmapped ==
    (entry \in {"toFile", "toArray"} /\ pc = "done") =>
        \A i \in DOMAIN legacyEvents.a :
            StaticMapEvent(legacyEvents.a[i], clock).val = Null =>
                \/ /\ apiResult # Undefined
                      /\ apiResult.val.k = "array"
                      /\ \E j \in DOMAIN apiResult.val.a :
                             apiResult.val.a[j] = legacyEvents.a[i]
                \/ \E w \in DOMAIN written :
                       \E j \in DOMAIN written[w].content :
                           written[w].content[j] = legacyEvents.a[i]

(***************************************************************************)
(* Claims about the trigger bitmasks (checked under SpecTriggers)          *)
(***************************************************************************)
TriggerBit(t) ==
    CASE t = "filewatch" -> 1
      [] t = "pre-commit" -> 2
      [] t = "manual" -> 4
      [] t = "idle-finalize" -> 8
      [] OTHER -> 0

RECURSIVE SumBits(_)
\* the sum of the bits of a set of triggers
SumBits(S) ==
    IF S = {} THEN 0
    ELSE LET t == CHOOSE x \in S : TRUE IN TriggerBit(t) + SumBits(S \ {t})

Elements(q) == {q[i] : i \in DOMAIN q}

Reversed(q) == [i \in DOMAIN q |-> q[Len(q) + 1 - i]]

\* C15: encodeTriggerBitmask returns the OR of the bits filewatch = 1,
\* pre-commit = 2, manual = 4, idle-finalize = 8 over its input: the result is
\* fixed by the set of triggers present, so a repeated trigger or another
\* order gives the same mask.
C15_EncodeIsSetUnion ==
    \A i \in DOMAIN tHist :
        tHist[i].op = "encode" =>
            /\ tHist[i].mask = SumBits(Elements(tHist[i].seq))
            /\ tHist[i].mask = encodeTriggerBitmask(Reversed(tHist[i].seq))
            /\ tHist[i].mask = encodeTriggerBitmask(tHist[i].seq \o tHist[i].seq)

C15_Witness ==
    /\ Len(tHist) > 0
    /\ tHist[1].op = "encode"
    /\ tHist[1].seq = <<"manual", "filewatch", "manual">>
    /\ tHist[1].mask = 5

\* C16: decodeTriggerBitmask(mask) returns, for every integer mask, exactly
\* the triggers whose bit among 1, 2, 4, 8 is set, each once, in the order
\* filewatch, pre-commit, manual, idle-finalize; bits above 8 have no
\* influence.
C16_DecodeFixedOrder ==
    \A i \in DOMAIN tHist :
        tHist[i].op = "decode" =>
            LET out == tHist[i].seq
                m == tHist[i].mask
            IN /\ \A t \in SessionTriggerSchema :
                     (t \in Elements(out)) <=> (Bit(m, TriggerBit(t)) = 1)
               /\ Elements(out) \subseteq SessionTriggerSchema
               /\ \A j, k \in DOMAIN out :
                     j < k => TriggerBit(out[j]) < TriggerBit(out[k])
               /\ out = decodeTriggerBitmask(m % 16)
               /\ out = decodeTriggerBitmask(m + 16)

C16_Witness ==
    /\ Len(tHist) > 0
    /\ tHist[1].op = "decode"
    /\ tHist[1].mask = 16 + 8 + 2
    /\ tHist[1].seq = <<"pre-commit", "idle-finalize">>

\* C17: for every sequence ts of triggers, with duplicates, in any order or
\* empty, decode(encode(decode(encode(ts)))) = decode(encode(ts)); and
\* encode([]) = 0, decode(0) = [].
C17_RoundTripIdempotent ==
    /\ (Len(tHist) >= 4 /\ tHist[1].op = "encode") =>
          /\ tHist[4].op = "decode"
          /\ tHist[3].seq = tHist[2].seq
          /\ tHist[4].seq = tHist[2].seq
    /\ \A i \in DOMAIN tHist :
          /\ (tHist[i].op = "encode" /\ tHist[i].seq = <<>>) => tHist[i].mask = 0
          /\ (tHist[i].op = "decode" /\ tHist[i].mask = 0) => tHist[i].seq = <<>>

C17_Witness ==
    /\ Len(tHist) = 4
    /\ tHist[1].op = "encode"
    /\ tHist[1].seq = <<"idle-finalize", "manual", "manual">>
    /\ tHist[2].seq = <<"manual", "idle-finalize">>
    /\ tHist[4].seq = <<"manual", "idle-finalize">>

\* C30: for every mask that is not negative, encode(decode(mask)) is the
\* mask with every bit above the low four cleared, mask mod 16; every value
\* encode returns is in 0..15, and encode after decode gives a mask of 0..15
\* back.
C30_EncodeAfterDecode ==
    /\ \A i \in DOMAIN tHist : tHist[i].op = "encode" => tHist[i].mask \in 0..15
    /\ \A i \in DOMAIN tHist :
          (/\ i < Len(tHist)
           /\ tHist[i].op = "decode"
           /\ tHist[i].mask >= 0) =>
              /\ tHist[i + 1].op = "encode"
              /\ tHist[i + 1].seq = tHist[i].seq
              /\ tHist[i + 1].mask = tHist[i].mask % 16
              /\ tHist[i].mask \in 0..15 => tHist[i + 1].mask = tHist[i].mask

C30_Witness ==
    /\ Len(tHist) >= 2
    /\ tHist[1].op = "decode"
    /\ tHist[1].mask = 32 + 8 - 3
    /\ tHist[1].seq = <<"filewatch", "manual">>
    /\ tHist[2].op = "encode"
    /\ tHist[2].mask = 5

(***************************************************************************)
(* Claims about the risk score utilities (checked under SpecRisk)          *)
(***************************************************************************)
\* the units of the score brought to the 0-10 scale, before clamping
OnTenScale(q, scale) ==
    CASE scale = "0-1" -> q * 10
      [] scale = "0-10" -> q
      [] scale = "0-100" -> q \div 10

Clamped(q) == IF q < 0 THEN 0 ELSE IF q > 10 * RUnit THEN 10 * RUnit ELSE q

C19_SeverityBuckets ==
    (rSeverity # "" /\ rScore.k = "fix" /\ rScore.q >= 0 /\ rScore.q <= 10 * RUnit) =>
        rSeverity = IF rScore.q < 3 * RUnit THEN "low"
                    ELSE IF rScore.q < 5 * RUnit THEN "medium"
                    ELSE IF rScore.q < 7 * RUnit THEN "high"
                    ELSE "critical"

C19_Witness ==
    /\ rScore = Whole(3)
    /\ rSeverity = "medium"

Abs(n) == IF n < 0 THEN -n ELSE n

\* the units of q rounded to d decimals, a tie going away from zero
HalfAwayFromZero(q, d) ==
    LET step == RUnit \div (10 ^ d)
    IN (IF q < 0 THEN -1 ELSE 1) * (((2 * Abs(q) + step) \div (2 * step)) * step)

\* C20: roundRiskScore(score, decimals) rounds to decimals places, 1 when
\* omitted, a tie going away from zero for positive and negative scores
\* alike (-2.5 with decimals = 0 gives -3).
C20_RoundHalfAwayFromZero ==
    (rRounded # Undefined /\ rScore.k = "fix") =>
        rRounded = Fix(HalfAwayFromZero(rScore.q, DecimalsOrDefault(rDecimals)))

(***************************************************************************)
(* Claims about the EventBus (checked under SpecBus)                       *)
(***************************************************************************)
\* the number of the first call on(k, h), 0 if there was none
FirstOn(k, h) ==
    IF \E i \in DOMAIN bSubs : bSubs[i].k = k /\ bSubs[i].h = h
    THEN CHOOSE i \in DOMAIN bSubs :
             /\ bSubs[i].k = k /\ bSubs[i].h = h
             /\ \A j \in 1..(i - 1) : ~(bSubs[j].k = k /\ bSubs[j].h = h)
    ELSE 0

\* the handlers an emit invoked, in the order of their invocation
InvokedHandlers(e) == [i \in DOMAIN e.invoked |-> e.invoked[i].h]

\* C28 as the spec states it: an emit that has ended invoked exactly the
\* handlers registered for its key when it started, each once, in the order
\* of their first registration.
C28_FirstRegistrationOrder ==
    \A n \in DOMAIN bLog :
        LET e == bLog[n]
            hs == InvokedHandlers(e)
        IN e.state # "running" =>
              /\ Elems(hs) = {h \in Handlers : e.regAt[h] > 0}
              /\ \A i, j \in DOMAIN hs : i < j => FirstOn(e.k, hs[i]) < FirstOn(e.k, hs[j])

\* C28: the handlers an emit invokes are a prefix of the handlers registered
\* for its key when it started, each at most once and with the emit's payload,
\* in the order of the registrations that put them into the key's Set (a
\* handler removed and registered again comes last); the prefix is the whole
\* when the emit ends without a throw, and ends with the handler that threw
\* otherwise. Changes of the Set while the emit runs do not change it.
C28_SnapshotInRegistrationOrder ==
    \A n \in DOMAIN bLog :
        LET e == bLog[n]
            hs == InvokedHandlers(e)
        IN /\ Elems(e.atStart) = {h \in Handlers : e.regAt[h] > 0}
           /\ \A i, j \in DOMAIN e.atStart :
                 i < j => e.regAt[e.atStart[i]] < e.regAt[e.atStart[j]]
           /\ Len(hs) <= Len(e.atStart)
           /\ hs = SubSeq(e.atStart, 1, Len(hs))
           /\ \A i \in DOMAIN e.invoked : e.invoked[i].p = e.p
           /\ e.state = "done" => hs = e.atStart
           /\ e.state \in {"running", "thrown"} => Len(hs) >= 1

C28_Witness ==
    /\ Len(bLog) = 1
    /\ bLog[1].state = "done"
    /\ bLog[1].k = "a"
    /\ InvokedHandlers(bLog[1]) = <<"h2", "h1">>
    /\ FirstOn("a", "h1") = 1
    /\ FirstOn("a", "h2") = 2
    /\ bLog[1].regAt["h2"] < bLog[1].regAt["h1"]

\* C29 as the spec states it: a call of a closure that was called before
\* changes nothing.
C29_RepeatedUnsubscribeNoEffect ==
    \A n \in DOMAIN bUnsubs : bUnsubs[n].nth >= 2 => bUnsubs[n].after = bUnsubs[n].before

\* C29: a call of the closure on(k, h) returned takes h out of the Set of k
\* and leaves the other handlers of k, in their order, and the other keys as
\* they are; a handler that is not in the Set of the key when an emit starts
\* is not invoked by it, and a handler is in the Set exactly from a call
\* on(k, h) to the next call of one of its closures; a repeated call of a
\* closure changes something only if on(k, h) was called again since its
\* last call.
C29_UnsubscribeRemoves ==
    /\ \A n \in DOMAIN bUnsubs :
          LET u == bUnsubs[n]
          IN /\ DOMAIN u.after = DOMAIN u.before
             /\ \A k \in DOMAIN u.before :
                   /\ k # u.k => u.after[k] = u.before[k]
                   /\ u.h \notin Elems(u.after[u.k])
                   /\ Elems(u.after[u.k]) = Elems(u.before[u.k]) \ {u.h}
                   /\ \A i, j \in DOMAIN u.after[u.k] :
                         i < j => \E a, b \in DOMAIN u.before[u.k] :
                                      /\ a < b
                                      /\ u.before[u.k][a] = u.after[u.k][i]
                                      /\ u.before[u.k][b] = u.after[u.k][j]
             /\ (u.nth >= 2 /\ u.after # u.before) => u.readded
    /\ \A n \in DOMAIN bLog :
          \A h \in Handlers :
              bLog[n].regAt[h] = 0 => h \notin Elems(InvokedHandlers(bLog[n]))
    /\ \A k \in Keys, h \in Handlers :
          bRegAt[<<k, h>>] > 0 <=> (k \in DOMAIN bSets /\ h \in Elems(bSets[k]))
    /\ \A k \in Keys, h \in Handlers :
          bRegAt[<<k, h>>] > 0 =>
              /\ bSubs[bRegAt[<<k, h>>]].k = k /\ bSubs[bRegAt[<<k, h>>]].h = h
              /\ \A i \in DOMAIN bSubs :
                    (bSubs[i].k = k /\ bSubs[i].h = h /\ i >= bRegAt[<<k, h>>]) =>
                        bSubs[i].calls = 0 \/ bSubs[i].readded

C29_Witness ==
    /\ Len(bUnsubs) = 2
    /\ bUnsubs[1].sub = 1 /\ bUnsubs[2].sub = 1
    /\ bUnsubs[2].nth = 2
    /\ bUnsubs[2].readded
    /\ bUnsubs[2].k = "a"
    /\ bUnsubs[2].before["a"] = <<"h2", "h1">>
    /\ bUnsubs[2].after["a"] = <<"h2">>

(***************************************************************************)
(* Claims about the validator (checked under SpecValidator)                *)
(***************************************************************************)
\* C6: every structurally valid canonical event of each of the seven tags is
\* accepted: validateCoreTelemetryEvent is true and
\* getCoreEventValidationError is null.
C6_ValidAccepted ==
    (vDone /\ vKind = "valid" /\ vExtra = 0) => (vVerdict /\ vError = Null)

C6_Witness ==
    /\ vDone /\ vKind = "valid" /\ vExtra = 0 /\ vVerdict /\ vError = Null
    /\ vSchema = "core"
    /\ Tag(vCand) = Str("session_finalized")
    /\ Prop(vCand, "ai_confidence_score") = Half(7)

\* C7: a candidate with a tag outside the seven, a missing required property,
\* a required property of the wrong primitive type or an enum value outside
\* its enumeration is rejected with a message; and on every candidate the
\* error is null exactly when the verdict is true.
C7_InvalidRejected ==
    vDone =>
        /\ vKind \in {"wrongtag", "missing", "wrongtype", "badenum"}
              => (~vVerdict /\ vError.k = "string" /\ vError.s # "")
        /\ vVerdict <=> (vError = Null)
        /\ ~vVerdict => vError.k = "string"

C7_Witness ==
    /\ vDone /\ vKind = "badenum" /\ ~vVerdict /\ vError.k = "string"
    /\ Tag(vCand) = Str("policy_changed")
    /\ Prop(vCand, "to") = Str("bogus")

\* C8: an otherwise valid candidate that omits event_version, timestamp or
\* both is accepted; the parsed result carries event_version "1.0.0" where
\* the version was omitted, and a numeric timestamp (the time of the call
\* where the timestamp was omitted).
C8_DefaultsApplied ==
    (vDone /\ vKind = "valid" /\ vExtra = 0) =>
        /\ vVerdict
        /\ vParsed.k = "object"
        /\ Get(vCand, "event_version") = Undefined
              => Get(vParsed, "event_version") = Str("1.0.0")
        /\ Get(vCand, "event_version") # Undefined
              => Get(vParsed, "event_version") = Get(vCand, "event_version")
        /\ Get(vParsed, "timestamp").k = "number"
        /\ Get(vCand, "timestamp") = Undefined
              => Get(vParsed, "timestamp") = Num(clock)

C8_Witness ==
    /\ vDone /\ vKind = "valid" /\ vVerdict
    /\ Get(vCand, "event_version") = Undefined
    /\ Get(vCand, "timestamp") = Undefined
    /\ Get(vParsed, "event_version") = Str("1.0.0")
    /\ Get(vParsed, "timestamp") = Num(clock)

\* C9: adding unknown fields to a candidate, on the envelope or inside
\* properties, never changes the verdict: a valid event stays valid and an
\* invalid one stays invalid.
C9_ExtraFieldsIgnored ==
    (vDone /\ vExtra > 0) => (vVerdict = vOriginOk)

C9_Witness ==
    /\ vDone /\ vExtra = MaxExtra /\ vVerdict /\ vOriginOk
    /\ ExtraName(1) \in DOMAIN vCand.o
    /\ ExtraName(MaxExtra) \in DOMAIN Props(vCand).o
    /\ ExtraName(MaxExtra) \notin DOMAIN Props(vParsed).o

\* the property names that two distinct canonical tags both require
SharedRequired(ver) ==
    {f \in UNION {RequiredFields(ver, t) : t \in CORE_TELEMETRY_EVENTS} :
        \E t1, t2 \in CORE_TELEMETRY_EVENTS :
            t1 # t2 /\ f \in RequiredFields(ver, t1) \cap RequiredFields(ver, t2)}

\* C25 as the spec states it: no property name is required by the schemas of
\* two different canonical tags.
C25_RequiredDisjoint ==
    \A t1, t2 \in CORE_TELEMETRY_EVENTS :
        t1 # t2 => RequiredFields(vSchema, t1) \cap RequiredFields(vSchema, t2) = {}

\* C25: the tag alone selects the schema: an accepted event has a canonical
\* tag and carries every required property of that tag, and a valid event
\* relabelled with another canonical tag is rejected. The required property
\* names of distinct tags overlap (in exactly seven names), but no tag's
\* required names are contained in another tag's.
C25_TagSelectsSchema ==
    /\ \A t1, t2 \in CORE_TELEMETRY_EVENTS :
          t1 # t2 => ~(RequiredFields(vSchema, t1) \subseteq RequiredFields(vSchema, t2))
    /\ SharedRequired(vSchema) =
          {"session_id", "issue_id", "file_kind", "severity", "reason", "ai_present",
           "ai_burst"}
    /\ vDone =>
          /\ vVerdict =>
                /\ Tag(vCand).k = "string"
                /\ Tag(vCand).s \in CORE_TELEMETRY_EVENTS
                /\ RequiredFields(vSchema, Tag(vCand).s) \subseteq DOMAIN Props(vCand).o
          /\ vKind = "swappedtag" => ~vVerdict

C25_Witness ==
    /\ vDone /\ vKind = "swappedtag" /\ ~vVerdict
    /\ Tag(vCand) = Str("session_restored")
    /\ DOMAIN Props(vCand).o = RequiredFields(vSchema, "snapshot_created")
    /\ "session_id" \in DOMAIN Props(vCand).o

====
